---- MODULE Spec2Model ----
(***************************************************************************)
(* A model of the ClickUp MCP server's consent-cookie protocol             *)
(* (src/src/workers-oauth-utils.ts, src/src/handlers/oauth-handler.ts)     *)
(* and of its hierarchical list aggregation                                *)
(* (src/src/services/clickup-service.ts).                                  *)
(*                                                                         *)
(* A JavaScript string is a sequence of UTF-16 code units (naturals), a    *)
(* byte array a sequence of naturals below 256.  An operation of the       *)
(* platform that may throw returns [ok |-> TRUE, v |-> value] or           *)
(* [ok |-> FALSE, v |-> <<>>].                                              *)
(***************************************************************************)
EXTENDS Integers, Sequences, FiniteSets, TLC

\* ------------------------------------------------------------------------
\* Sequences and strings
\* ------------------------------------------------------------------------

Ok(x) == [ok |-> TRUE, v |-> x]
Throw == [ok |-> FALSE, v |-> <<>>]

Range(s) == {s[i] : i \in 1..Len(s)}

\* s from index i (1-based) to its end: String.prototype.substring(i - 1)
Drop(s, i) == SubSeq(s, i, Len(s))

\* String.prototype.startsWith
StartsWith(s, p) == Len(s) >= Len(p) /\ SubSeq(s, 1, Len(p)) = p

\* the index of the first sep in s at or after index i, Len(s) + 1 if none
NextIndexOf(s, sep, i) ==
    IF \E j \in i..Len(s) : s[j] = sep
        THEN CHOOSE j \in i..Len(s) : s[j] = sep /\ \A k \in i..(j - 1) : s[k] /= sep
    ELSE Len(s) + 1

\* String.prototype.split(sep) for a separator of one code unit: the pieces
\* between the separators, in order (always at least one piece).
RECURSIVE SplitFrom(_, _, _)
SplitFrom(s, sep, i) ==
    LET j == NextIndexOf(s, sep, i)
    IN IF j > Len(s) THEN <<SubSeq(s, i, Len(s))>>
       ELSE <<SubSeq(s, i, j - 1)>> \o SplitFrom(s, sep, j + 1)

Split(s, sep) == SplitFrom(s, sep, 1)

\* ECMAScript WhiteSpace and LineTerminator code units (what trim() strips and
\* parseInt skips).
IsLineTerminator(c) == c \in {10, 13, 8232, 8233}

IsTrimmed(c) ==
    \/ c \in {9, 11, 12, 32, 160, 5760, 8239, 8287, 12288, 65279}
    \/ (c >= 8192 /\ c <= 8202)
    \/ IsLineTerminator(c)

\* the text from its first code unit that trim() keeps
TrimStart(s) ==
    IF \A i \in 1..Len(s) : IsTrimmed(s[i]) THEN <<>>
    ELSE Drop(s, CHOOSE i \in 1..Len(s) :
                    ~IsTrimmed(s[i]) /\ \A k \in 1..(i - 1) : IsTrimmed(s[k]))

\* the text up to its last code unit that trim() keeps
TrimEnd(s) ==
    IF \A i \in 1..Len(s) : IsTrimmed(s[i]) THEN <<>>
    ELSE SubSeq(s, 1, CHOOSE i \in 1..Len(s) :
                         ~IsTrimmed(s[i]) /\ \A k \in (i + 1)..Len(s) : IsTrimmed(s[k]))

\* String.prototype.trim
Trim(s) == TrimEnd(TrimStart(s))

\* Array.prototype.join with a separator string
RECURSIVE Join(_, _)
Join(parts, sep) ==
    IF parts = <<>> THEN <<>>
    ELSE IF Len(parts) = 1 THEN parts[1]
    ELSE parts[1] \o sep \o Join(Tail(parts), sep)

\* ------------------------------------------------------------------------
\* TextEncoder.encode: the UTF-8 bytes of a string of UTF-16 code units.  A
\* surrogate pair is one code point of four bytes; a lone surrogate is
\* replaced by U+FFFD.
\* ------------------------------------------------------------------------

IsHighSurrogate(c) == c >= 55296 /\ c <= 56319
IsLowSurrogate(c) == c >= 56320 /\ c <= 57343

Utf8OfCodePoint(cp) ==
    IF cp < 128 THEN <<cp>>
    ELSE IF cp < 2048 THEN <<192 + (cp \div 64), 128 + (cp % 64)>>
    ELSE IF cp < 65536
        THEN <<224 + (cp \div 4096), 128 + ((cp \div 64) % 64), 128 + (cp % 64)>>
    ELSE <<240 + (cp \div 262144), 128 + ((cp \div 4096) % 64),
           128 + ((cp \div 64) % 64), 128 + (cp % 64)>>

RECURSIVE Utf8Encode(_)
Utf8Encode(s) ==
    IF s = <<>> THEN <<>>
    ELSE IF IsHighSurrogate(s[1]) /\ Len(s) >= 2 /\ IsLowSurrogate(s[2])
        THEN Utf8OfCodePoint(65536 + (s[1] - 55296) * 1024 + (s[2] - 56320))
             \o Utf8Encode(Drop(s, 3))
    ELSE IF IsHighSurrogate(s[1]) \/ IsLowSurrogate(s[1])
        THEN <<239, 191, 189>> \o Utf8Encode(Tail(s))
    ELSE Utf8OfCodePoint(s[1]) \o Utf8Encode(Tail(s))

\* ------------------------------------------------------------------------
\* btoa / atob (WHATWG forgiving-base64)
\* ------------------------------------------------------------------------

B64Char(i) ==
    IF i < 26 THEN 65 + i
    ELSE IF i < 52 THEN 97 + (i - 26)
    ELSE IF i < 62 THEN 48 + (i - 52)
    ELSE IF i = 62 THEN 43
    ELSE 47

\* the 6-bit value of a base64 character, -1 for any other code unit
B64Index(c) ==
    IF c >= 65 /\ c <= 90 THEN c - 65
    ELSE IF c >= 97 /\ c <= 122 THEN c - 97 + 26
    ELSE IF c >= 48 /\ c <= 57 THEN c - 48 + 52
    ELSE IF c = 43 THEN 62
    ELSE IF c = 47 THEN 63
    ELSE -1

RECURSIVE B64Encode(_)
B64Encode(b) ==
    IF b = <<>> THEN <<>>
    ELSE IF Len(b) = 1
        THEN <<B64Char(b[1] \div 4), B64Char((b[1] % 4) * 16), 61, 61>>
    ELSE IF Len(b) = 2
        THEN <<B64Char(b[1] \div 4),
               B64Char((b[1] % 4) * 16 + (b[2] \div 16)),
               B64Char((b[2] % 16) * 4), 61>>
    ELSE <<B64Char(b[1] \div 4),
           B64Char((b[1] % 4) * 16 + (b[2] \div 16)),
           B64Char((b[2] % 16) * 4 + (b[3] \div 64)),
           B64Char(b[3] % 64)>> \o B64Encode(Drop(b, 4))

\* btoa: throws InvalidCharacterError when a code unit is above 0xFF
btoa(s) ==
    IF \E i \in 1..Len(s) : s[i] > 255 THEN Throw ELSE Ok(B64Encode(s))

IsAsciiWhitespace(c) == c \in {9, 10, 12, 13, 32}

StripAsciiWhitespace(s) == SelectSeq(s, LAMBDA c : ~IsAsciiWhitespace(c))

\* one or two trailing '=' are removed when the length is a multiple of four
StripPadding(s) ==
    IF Len(s) % 4 = 0 /\ Len(s) > 0 /\ s[Len(s)] = 61
        THEN IF s[Len(s) - 1] = 61 THEN SubSeq(s, 1, Len(s) - 2)
             ELSE SubSeq(s, 1, Len(s) - 1)
    ELSE s

\* the bytes of a padding-free base64 text; left-over bits are discarded
RECURSIVE B64Decode(_)
B64Decode(s) ==
    IF Len(s) < 2 THEN <<>>
    ELSE LET a == B64Index(s[1])
             b == B64Index(s[2])
         IN IF Len(s) = 2 THEN <<a * 4 + (b \div 16)>>
            ELSE LET c == B64Index(s[3])
                 IN IF Len(s) = 3
                        THEN <<a * 4 + (b \div 16), (b % 16) * 16 + (c \div 4)>>
                    ELSE <<a * 4 + (b \div 16), (b % 16) * 16 + (c \div 4),
                           (c % 4) * 64 + B64Index(s[4])>> \o B64Decode(Drop(s, 5))

\* atob: throws InvalidCharacterError on a text that is not forgiving-base64
atob(s) ==
    LET t == StripPadding(StripAsciiWhitespace(s))
    IN IF Len(t) % 4 = 1 \/ (\E i \in 1..Len(t) : B64Index(t[i]) = -1)
           THEN Throw
       ELSE Ok(B64Decode(t))

\* ------------------------------------------------------------------------
\* Hexadecimal: the signature's transport form
\* ------------------------------------------------------------------------

\* Number.prototype.toString(16).padStart(2, "0") of a byte
HexDigit(n) == IF n < 10 THEN 48 + n ELSE 87 + n

ByteToHex(b) == <<HexDigit(b \div 16), HexDigit(b % 16)>>

RECURSIVE BytesToHex(_)
BytesToHex(b) ==
    IF b = <<>> THEN <<>> ELSE ByteToHex(b[1]) \o BytesToHex(Tail(b))

\* the value of a hexadecimal digit of either case, -1 for any other code unit
HexVal(c) ==
    IF c >= 48 /\ c <= 57 THEN c - 48
    ELSE IF c >= 97 /\ c <= 102 THEN c - 87
    ELSE IF c >= 65 /\ c <= 70 THEN c - 55
    ELSE -1

\* the value of the longest prefix of hexadecimal digits of s, continuing acc
RECURSIVE HexPrefixValue(_, _)
HexPrefixValue(s, acc) ==
    IF s = <<>> \/ HexVal(s[1]) = -1 THEN acc
    ELSE HexPrefixValue(Tail(s), acc * 16 + HexVal(s[1]))

\* Number.parseInt(s, 16): leading white space skipped, an optional sign, an
\* optional 0x / 0X, then the longest run of hexadecimal digits; NaN when that
\* run is empty.  Never throws.
ParseIntHex(s) ==
    LET t == TrimStart(s)
        neg == t /= <<>> /\ t[1] = 45
        u == IF t /= <<>> /\ t[1] \in {43, 45} THEN Tail(t) ELSE t
        w == IF Len(u) >= 2 /\ u[1] = 48 /\ u[2] \in {88, 120} THEN Drop(u, 3) ELSE u
    IN IF w = <<>> \/ HexVal(w[1]) = -1 THEN [nan |-> TRUE, n |-> 0]
       ELSE [nan |-> FALSE,
             n |-> IF neg THEN 0 - HexPrefixValue(w, 0) ELSE HexPrefixValue(w, 0)]

\* the element a Uint8Array stores for a number: NaN becomes 0, others wrap
ToUint8(x) == IF x.nan THEN 0 ELSE x.n % 256

\* String.prototype.match(/.{1,2}/g): the text cut into pieces of two code
\* units (a last piece, or one before a line terminator, may hold one); the
\* empty sequence stands for null (no match).
RECURSIVE MatchPairs(_)
MatchPairs(s) ==
    IF s = <<>> THEN <<>>
    ELSE IF IsLineTerminator(s[1]) THEN MatchPairs(Tail(s))
    ELSE IF Len(s) >= 2 /\ ~IsLineTerminator(s[2])
        THEN <<SubSeq(s, 1, 2)>> \o MatchPairs(Drop(s, 3))
    ELSE <<SubSeq(s, 1, 1)>> \o MatchPairs(Tail(s))

\* new Uint8Array(signatureHex.match(/.{1,2}/g)?.map(b => parseInt(b, 16)))
HexToBytes(signatureHex) ==
    LET pieces == MatchPairs(signatureHex)
    IN [i \in 1..Len(pieces) |-> ToUint8(ParseIntHex(pieces[i]))]

\* ------------------------------------------------------------------------
\* HMAC.  crypto.subtle's HMAC-SHA256 is taken as an ideal MAC: a function of
\* key and message that is injective in the pair (keys here have one length),
\* so that two tags agree exactly when key and message agree.  The tag is a
\* byte string; nothing in the code depends on its length being 32.
\* ------------------------------------------------------------------------

HmacSha256(keyBytes, dataBytes) ==
    keyBytes \o <<Len(dataBytes) % 256>> \o dataBytes

\* ------------------------------------------------------------------------
\* JSON.  A JSON value is [t |-> tag, v |-> content]:
\*   "string"  the decoded string        "number"  the literal's text
\*   "array"   the sequence of values    "object"  the sequence of <<key, value>>
\*   "true", "false", "null", and "undefined" (a missing property): <<>>
\* ------------------------------------------------------------------------

JStr(s) == [t |-> "string", v |-> s]
JNum(text) == [t |-> "number", v |-> text]
JArr(items) == [t |-> "array", v |-> items]
JObj(members) == [t |-> "object", v |-> members]
JLit(tag) == [t |-> tag, v |-> <<>>]
JUndefined == JLit("undefined")

\* the code unit at index i, -1 outside the text
At(s, i) == IF i >= 1 /\ i <= Len(s) THEN s[i] ELSE -1

IsDigit(c) == c >= 48 /\ c <= 57

RECURSIVE SkipWs(_, _)
SkipWs(s, i) == IF At(s, i) \in {9, 10, 13, 32} THEN SkipWs(s, i + 1) ELSE i

RECURSIVE SkipDigits(_, _)
SkipDigits(s, i) == IF IsDigit(At(s, i)) THEN SkipDigits(s, i + 1) ELSE i

\* a parser's result: the value and the index after it, or a SyntaxError
Parsed(val, next) == [ok |-> TRUE, v |-> val, pos |-> next]
SyntaxError == [ok |-> FALSE, v |-> <<>>, pos |-> 0]

\* the characters of a string literal from index i (after the opening quote)
RECURSIVE ParseStringBody(_, _, _)
ParseStringBody(s, i, acc) ==
    LET c == At(s, i)
        e == At(s, i + 1)
    IN IF c = -1 \/ (c >= 0 /\ c < 32) THEN SyntaxError
       ELSE IF c = 34 THEN Parsed(JStr(acc), i + 1)
       ELSE IF c /= 92 THEN ParseStringBody(s, i + 1, Append(acc, c))
       ELSE IF e \in {34, 92, 47} THEN ParseStringBody(s, i + 2, Append(acc, e))
       ELSE IF e = 98 THEN ParseStringBody(s, i + 2, Append(acc, 8))
       ELSE IF e = 102 THEN ParseStringBody(s, i + 2, Append(acc, 12))
       ELSE IF e = 110 THEN ParseStringBody(s, i + 2, Append(acc, 10))
       ELSE IF e = 114 THEN ParseStringBody(s, i + 2, Append(acc, 13))
       ELSE IF e = 116 THEN ParseStringBody(s, i + 2, Append(acc, 9))
       ELSE IF e = 117 /\ \A k \in 2..5 : HexVal(At(s, i + k)) /= -1
           THEN ParseStringBody(s, i + 6,
                    Append(acc, HexVal(s[i + 2]) * 4096 + HexVal(s[i + 3]) * 256
                                + HexVal(s[i + 4]) * 16 + HexVal(s[i + 5])))
       ELSE SyntaxError

\* -? (0 | [1-9][0-9]*) (. [0-9]+)? ([eE] [+-]? [0-9]+)?  starting at index i
ParseNumber(s, i) ==
    LET i1 == IF At(s, i) = 45 THEN i + 1 ELSE i
        i2 == IF At(s, i1) = 48 THEN i1 + 1 ELSE SkipDigits(s, i1)
        i3 == IF At(s, i2) = 46 THEN SkipDigits(s, i2 + 1) ELSE i2
        j == IF At(s, i3 + 1) \in {43, 45} THEN i3 + 2 ELSE i3 + 1
        i4 == IF At(s, i3) \in {69, 101} THEN SkipDigits(s, j) ELSE i3
    IN IF i2 = i1 \/ (At(s, i2) = 46 /\ i3 = i2 + 1)
          \/ (At(s, i3) \in {69, 101} /\ i4 = j)
           THEN SyntaxError
       ELSE Parsed(JNum(SubSeq(s, i, i4 - 1)), i4)

ParseLiteral(s, i, text, tag) ==
    IF i + Len(text) - 1 <= Len(s) /\ SubSeq(s, i, i + Len(text) - 1) = text
        THEN Parsed(JLit(tag), i + Len(text))
    ELSE SyntaxError

RECURSIVE ParseValue(_, _)
RECURSIVE ParseElements(_, _, _)
RECURSIVE ParseMembers(_, _, _)

\* the elements of an array from index i (a value is expected), acc before them
ParseElements(s, i, acc) ==
    LET r == ParseValue(s, i)
        k == SkipWs(s, r.pos)
    IN IF ~r.ok THEN SyntaxError
       ELSE IF At(s, k) = 44 THEN ParseElements(s, k + 1, Append(acc, r.v))
       ELSE IF At(s, k) = 93 THEN Parsed(JArr(Append(acc, r.v)), k + 1)
       ELSE SyntaxError

\* the members of an object from index i (a key is expected), acc before them
ParseMembers(s, i, acc) ==
    LET j == SkipWs(s, i)
        key == IF At(s, j) = 34 THEN ParseStringBody(s, j + 1, <<>>) ELSE SyntaxError
        c == SkipWs(s, key.pos)
        r == ParseValue(s, c + 1)
        k == SkipWs(s, r.pos)
    IN IF ~key.ok \/ At(s, c) /= 58 THEN SyntaxError
       ELSE IF ~r.ok THEN SyntaxError
       ELSE IF At(s, k) = 44 THEN ParseMembers(s, k + 1, Append(acc, <<key.v.v, r.v>>))
       ELSE IF At(s, k) = 125 THEN Parsed(JObj(Append(acc, <<key.v.v, r.v>>)), k + 1)
       ELSE SyntaxError

ParseValue(s, i) ==
    LET j == SkipWs(s, i)
        c == At(s, j)
    IN IF c = 34 THEN ParseStringBody(s, j + 1, <<>>)
       ELSE IF c = 91
           THEN IF At(s, SkipWs(s, j + 1)) = 93
                    THEN Parsed(JArr(<<>>), SkipWs(s, j + 1) + 1)
                ELSE ParseElements(s, j + 1, <<>>)
       ELSE IF c = 123
           THEN IF At(s, SkipWs(s, j + 1)) = 125
                    THEN Parsed(JObj(<<>>), SkipWs(s, j + 1) + 1)
                ELSE ParseMembers(s, j + 1, <<>>)
       ELSE IF c = 45 \/ IsDigit(c) THEN ParseNumber(s, j)
       ELSE IF c = 116 THEN ParseLiteral(s, j, <<116, 114, 117, 101>>, "true")
       ELSE IF c = 102 THEN ParseLiteral(s, j, <<102, 97, 108, 115, 101>>, "false")
       ELSE IF c = 110 THEN ParseLiteral(s, j, <<110, 117, 108, 108>>, "null")
       ELSE SyntaxError

\* JSON.parse: one value and nothing but white space after it; else throws
WholeText(s, r) == IF r.ok /\ SkipWs(s, r.pos) = Len(s) + 1 THEN Ok(r.v) ELSE Throw

JsonParse(s) == WholeText(s, ParseValue(s, 1))

\* the escape JSON.stringify writes for one code unit of a string, given the
\* code units around it (a surrogate is escaped unless it is half of a pair)
Escaped(c, before, after) ==
    IF c = 34 THEN <<92, 34>>
    ELSE IF c = 92 THEN <<92, 92>>
    ELSE IF c = 8 THEN <<92, 98>>
    ELSE IF c = 9 THEN <<92, 116>>
    ELSE IF c = 10 THEN <<92, 110>>
    ELSE IF c = 12 THEN <<92, 102>>
    ELSE IF c = 13 THEN <<92, 114>>
    ELSE IF c < 32
             \/ (IsHighSurrogate(c) /\ ~IsLowSurrogate(after))
             \/ (IsLowSurrogate(c) /\ ~IsHighSurrogate(before))
        THEN <<92, 117>> \o ByteToHex(c \div 256) \o ByteToHex(c % 256)
    ELSE <<c>>

RECURSIVE EscapeFrom(_, _)
EscapeFrom(s, i) ==
    IF i > Len(s) THEN <<>>
    ELSE Escaped(s[i], At(s, i - 1), At(s, i + 1)) \o EscapeFrom(s, i + 1)

QuoteJson(s) == <<34>> \o EscapeFrom(s, 1) \o <<34>>

\* JSON.stringify of a JSON value.  A number is written as its literal (exact
\* for the plain integers used here); an object's members in their order.
RECURSIVE JsonStringify(_)
JsonStringify(val) ==
    IF val.t = "string" THEN QuoteJson(val.v)
    ELSE IF val.t = "number" THEN val.v
    ELSE IF val.t = "true" THEN <<116, 114, 117, 101>>
    ELSE IF val.t = "false" THEN <<102, 97, 108, 115, 101>>
    ELSE IF val.t = "array"
        THEN <<91>> \o Join([i \in 1..Len(val.v) |-> JsonStringify(val.v[i])], <<44>>)
             \o <<93>>
    ELSE IF val.t = "object"
        THEN <<123>>
             \o Join([i \in 1..Len(val.v) |->
                        QuoteJson(val.v[i][1]) \o <<58>> \o JsonStringify(val.v[i][2])],
                     <<44>>)
             \o <<125>>
    ELSE <<110, 117, 108, 108>>

\* value[key] of JavaScript for a parsed JSON value and a key that is no
\* built-in property name: the last member of that key of an object,
\* undefined for anything else
RECURSIVE LastMember(_, _, _)
LastMember(members, key, i) ==
    IF i = 0 THEN JUndefined
    ELSE IF members[i][1] = key THEN members[i][2]
    ELSE LastMember(members, key, i - 1)

GetProp(val, key) ==
    IF val.t = "object" THEN LastMember(val.v, key, Len(val.v)) ELSE JUndefined

\* ToBoolean of a JSON value: what !x negates
Truthy(val) ==
    IF val.t \in {"undefined", "null", "false"} THEN FALSE
    ELSE IF val.t = "string" THEN val.v /= <<>>
    ELSE IF val.t = "number"
        THEN \E i \in 1..Len(val.v) :
                /\ val.v[i] >= 49 /\ val.v[i] <= 57
                /\ \A k \in 1..i : val.v[k] \notin {69, 101}
    ELSE TRUE

\* encodeURIComponent: unreserved characters as they are, every other code
\* point as the %XX of its UTF-8 bytes (upper-case hexadecimal); throws
\* URIError on a lone surrogate.
IsUriUnreserved(c) ==
    \/ (c >= 65 /\ c <= 90) \/ (c >= 97 /\ c <= 122) \/ IsDigit(c)
    \/ c \in {45, 95, 46, 33, 126, 42, 39, 40, 41}

UpperHexDigit(n) == IF n < 10 THEN 48 + n ELSE 55 + n

RECURSIVE PercentEncode(_)
PercentEncode(b) ==
    IF b = <<>> THEN <<>>
    ELSE <<37, UpperHexDigit(b[1] \div 16), UpperHexDigit(b[1] % 16)>>
         \o PercentEncode(Tail(b))

RECURSIVE UriEncodeFrom(_, _)
UriEncodeFrom(s, i) ==
    IF i > Len(s) THEN <<>>
    ELSE IF IsUriUnreserved(s[i]) THEN <<s[i]>> \o UriEncodeFrom(s, i + 1)
    ELSE IF IsHighSurrogate(s[i])
        THEN PercentEncode(Utf8Encode(SubSeq(s, i, i + 1))) \o UriEncodeFrom(s, i + 2)
    ELSE PercentEncode(Utf8Encode(<<s[i]>>)) \o UriEncodeFrom(s, i + 1)

HasLoneSurrogate(s) ==
    \E i \in 1..Len(s) :
        \/ (IsHighSurrogate(s[i]) /\ ~IsLowSurrogate(At(s, i + 1)))
        \/ (IsLowSurrogate(s[i]) /\ ~IsHighSurrogate(At(s, i - 1)))

encodeURIComponent(s) == IF HasLoneSurrogate(s) THEN Throw ELSE Ok(UriEncodeFrom(s, 1))

\* Number.prototype.toString() of a natural number
RECURSIVE ToDecimal(_)
ToDecimal(n) ==
    IF n < 10 THEN <<48 + n>> ELSE ToDecimal(n \div 10) \o <<48 + (n % 10)>>

\* ========================================================================
\* src/src/workers-oauth-utils.ts
\* ========================================================================

\* null (a missing header, a missing form field), which is no string
Null == <<-1>>

\* "mcp-approved-clients"
COOKIE_NAME == <<109, 99, 112, 45, 97, 112, 112, 114, 111, 118, 101, 100, 45, 99, 108, 105, 101, 110, 116, 115>>

ONE_YEAR_IN_SECONDS == 31536000

\* the names of the state blob's properties: "oauthReqInfo", "clientId"
OAUTH_REQ_INFO == <<111, 97, 117, 116, 104, 82, 101, 113, 73, 110, 102, 111>>
CLIENT_ID == <<99, 108, 105, 101, 110, 116, 73, 100>>

\* decodeState: atob then JSON.parse; any failure is rethrown as one Error
DecodedJson(jsonString) == IF ~jsonString.ok THEN Throw ELSE JsonParse(jsonString.v)

decodeState(encoded) == DecodedJson(atob(encoded))

\* importKey: throws on an empty secret; the key is the secret's UTF-8 bytes
importKey(secret) == IF secret = <<>> THEN Throw ELSE Ok(Utf8Encode(secret))

\* signData over the text's code units, not over its UTF-8 bytes
signDataOfCodeUnits(key, data) == BytesToHex(HmacSha256(key, data))

\* signData: the HMAC of the data's UTF-8 bytes, in lower-case hexadecimal
signData(key, data) == BytesToHex(HmacSha256(key, Utf8Encode(data)))

\* verifySignature accepting every signature
verifyAnySignature(key, signatureHex, data) == TRUE

\* verifySignature: the hexadecimal text is turned into bytes (leniently, see
\* HexToBytes) and compared with the HMAC of the data's UTF-8 bytes.  Neither
\* step throws here, so the catch block is never entered.
verifySignature(key, signatureHex, data) ==
    HmacSha256(key, Utf8Encode(data)) = HexToBytes(signatureHex)

\* cookies.find(c => c.startsWith(`${COOKIE_NAME}=`)): the first such cookie,
\* Null when there is none
RECURSIVE FindCookie(_, _)
FindCookie(cookies, i) ==
    IF i > Len(cookies) THEN Null
    ELSE IF StartsWith(cookies[i], COOKIE_NAME \o <<61>>) THEN cookies[i]
    ELSE FindCookie(cookies, i + 1)

\* cookieHeader.split(";").map(c => c.trim())
CookiesOf(cookieHeader) ==
    [i \in 1..Len(Split(cookieHeader, 59)) |-> Trim(Split(cookieHeader, 59)[i])]

\* the strings of an all-strings JSON array
StringsOf(arr) == [i \in 1..Len(arr.v) |-> arr.v[i].v]

\* what getApprovedClientsFromCookie returns: null, or a list of strings
NoClients == [isNull |-> TRUE, list |-> <<>>]
Clients(list) == [isNull |-> FALSE, list |-> list]

\* getApprovedClientsFromCookie, lines 152-167: the parsed payload must be an
\* array of strings; a SyntaxError is caught
ClientsOfPayload(approvedClients) ==
    IF ~approvedClients.ok THEN NoClients
    ELSE IF approvedClients.v.t /= "array" THEN NoClients
    ELSE IF \E i \in 1..Len(approvedClients.v.v) : approvedClients.v.v[i].t /= "string"
        THEN NoClients
    ELSE Clients(StringsOf(approvedClients.v))

\* lines 142-150: payload is atob's result (outside any try block), key is
\* importKey's; the signature must verify over the decoded payload
ClientsOfSigned(signatureHex, payload, key) ==
    IF ~payload.ok THEN Throw
    ELSE IF ~key.ok THEN Throw
    ELSE IF ~verifySignature(key.v, signatureHex, payload.v) THEN Ok(NoClients)
    ELSE Ok(ClientsOfPayload(JsonParse(payload.v)))

\* lines 134-141: the cookie value must have two '.'-separated parts
ClientsOfParts(parts, secret) ==
    IF Len(parts) /= 2 THEN Ok(NoClients)
    ELSE ClientsOfSigned(parts[1], atob(parts[2]), importKey(secret))

\* lines 131-134
ClientsOfCookie(targetCookie, secret) ==
    IF targetCookie = Null THEN Ok(NoClients)
    ELSE ClientsOfParts(Split(Drop(targetCookie, Len(COOKIE_NAME) + 2), 46), secret)

getApprovedClientsFromCookie(cookieHeader, secret) ==
    IF cookieHeader = Null \/ cookieHeader = <<>> THEN Ok(NoClients)
    ELSE ClientsOfCookie(FindCookie(CookiesOf(cookieHeader), 1), secret)

\* approvedClients?.includes(clientId) ?? false; an exception passes through
IncludesClient(approvedClients, clientId) ==
    IF ~approvedClients.ok THEN Throw
    ELSE Ok(~approvedClients.v.isNull
            /\ \E i \in 1..Len(approvedClients.v.list) : approvedClients.v.list[i] = clientId)

\* clientIdAlreadyApproved(request, clientId, cookieSecret)
clientIdAlreadyApproved(request, clientId, cookieSecret) ==
    IF clientId = <<>> THEN Ok(FALSE)
    ELSE IncludesClient(getApprovedClientsFromCookie(request.cookie, cookieSecret), clientId)

\* Array.from(new Set(list)) for a list of strings: first occurrences, in order
RECURSIVE UniqueStrings(_, _)
UniqueStrings(list, seen) ==
    IF list = <<>> THEN <<>>
    ELSE IF list[1] \in seen THEN UniqueStrings(Tail(list), seen)
    ELSE <<list[1]>> \o UniqueStrings(Tail(list), seen \cup {list[1]})

JStrings(list) == [i \in 1..Len(list) |-> JStr(list[i])]

\* the union without deduplication
AppendAlways(unique, clientId) == Append(JStrings(unique), clientId)

\* the strings, then clientId unless it is a string among them (a value that
\* is no string never equals a string)
AppendNew(unique, clientId) ==
    IF clientId.t = "string" /\ clientId.v \in Range(unique) THEN JStrings(unique)
    ELSE Append(JStrings(unique), clientId)

\* a list of the approved client alone
JustClient(existingApprovedClients, clientId) == <<clientId>>

\* Array.from(new Set([...existingApprovedClients, clientId])) as JSON values
UnionWithClient(existingApprovedClients, clientId) ==
    AppendNew(UniqueStrings(existingApprovedClients, {}), clientId)

\* "; HttpOnly; Secure; Path=/; SameSite=Lax; Max-Age="
COOKIE_ATTRIBUTES == <<59, 32, 72, 116, 116, 112, 79, 110, 108, 121, 59, 32, 83, 101, 99, 117, 114, 101, 59, 32, 80, 97, 116, 104, 61, 47, 59, 32, 83, 97, 109, 101, 83, 105, 116, 101, 61, 76, 97, 120, 59, 32, 77, 97, 120, 45, 65, 103, 101, 61>>

\* parseRedirectApproval, lines 827-834: the cookie value is
\* signature.base64(payload); btoa throws on a payload outside Latin-1.  The
\* result holds the decoded state and the Set-Cookie header (and
\* updatedApprovedClients, the list that was serialised, for reference).
ApprovalResult(state, clients, signature, encodedPayload) ==
    IF ~encodedPayload.ok THEN Throw
    ELSE Ok([state |-> state,
             clients |-> clients,
             setCookie |-> COOKIE_NAME \o <<61>> \o signature \o <<46>> \o encodedPayload.v
                           \o COOKIE_ATTRIBUTES \o ToDecimal(ONE_YEAR_IN_SECONDS)])

\* lines 824-827: payload = JSON.stringify(updatedApprovedClients) is signed
\* as it is serialised, and base64-encoded
SignedApproval(state, clients, key) ==
    ApprovalResult(state, clients, signData(key, JsonStringify(JArr(clients))),
                   btoa(JsonStringify(JArr(clients))))

\* lines 814-825: the existing list (null read as empty) united with clientId
UpdatedApproval(state, clientId, existing, key) ==
    IF ~existing.ok THEN Throw
    ELSE IF ~key.ok THEN Throw
    ELSE SignedApproval(state,
            UnionWithClient(IF existing.v.isNull THEN <<>> ELSE existing.v.list, clientId),
            key.v)

\* lines 800-811: clientId = state?.oauthReqInfo?.clientId must be truthy
ApprovalOfClient(state, clientId, request, cookieSecret) ==
    IF ~Truthy(clientId) THEN Throw
    ELSE UpdatedApproval(state, clientId,
            getApprovedClientsFromCookie(request.cookie, cookieSecret),
            importKey(cookieSecret))

\* lines 799-800: state is decodeState's result
ApprovalOfState(state, request, cookieSecret) ==
    IF ~state.ok THEN Throw
    ELSE ApprovalOfClient(state.v, GetProp(GetProp(state.v, OAUTH_REQ_INFO), CLIENT_ID),
                          request, cookieSecret)

\* parseRedirectApproval(request, cookieSecret): throws, or returns the state
\* and the Set-Cookie header
parseRedirectApproval(request, cookieSecret) ==
    IF request.method /= "POST" THEN Throw
    ELSE IF ~request.form.parses THEN Throw
    ELSE IF request.form.state = Null \/ request.form.state = <<>> THEN Throw
    ELSE ApprovalOfState(decodeState(request.form.state), request, cookieSecret)

\* renderApprovalDialog's hidden form field: btoa(JSON.stringify(state));
\* throws when the JSON text holds a code unit above 0xFF
EncodedDialogState(state) == btoa(JsonStringify(state))

\* ========================================================================
\* src/src/handlers/oauth-handler.ts
\* ========================================================================

\* A response: what kind it is, its status, its Set-Cookie header (or Null) and
\* the state it carries (the dialog's hidden field, the redirect's upstream
\* state parameter; Null otherwise).
Response(kind, status, setCookie, state) ==
    [kind |-> kind, status |-> status, setCookie |-> setCookie, state |-> state]

\* createAdaptiveErrorResponse: an error page or an error JSON of that status
createAdaptiveErrorResponse(status) == Response("error", status, Null, Null)

\* app.onError: an exception that leaves a handler becomes a 500 error response
onError == createAdaptiveErrorResponse(500)

\* redirectToClickUp: 302 to the upstream authorization URL, whose state
\* parameter is btoa(encodeURIComponent(JSON.stringify(oauthReqInfo)))
RedirectWithState(uri, setCookie) ==
    IF ~uri.ok THEN onError ELSE Response("redirect", 302, setCookie, btoa(uri.v).v)

redirectToClickUp(oauthReqInfo, setCookie) ==
    RedirectWithState(encodeURIComponent(JsonStringify(oauthReqInfo)), setCookie)

\* renderApprovalDialog: the dialog page, an exception when btoa throws
DialogWithState(encodedState) ==
    IF ~encodedState.ok THEN onError ELSE Response("dialog", 200, Null, encodedState.v)

renderApprovalDialog(state) == DialogWithState(EncodedDialogState(state))

\* OAUTH_PROVIDER.parseAuthRequest: the authorization request of the query,
\* of which this model carries the client id (the other fields pass through)
parseAuthRequest(request) == JObj(<< <<CLIENT_ID, JStr(request.clientId)>> >>)

\* app.get("/authorize"), lines 86-106
AuthorizeDecision(oauthReqInfo, approved) ==
    IF ~approved.ok THEN onError
    ELSE IF approved.v THEN redirectToClickUp(oauthReqInfo, Null)
    ELSE renderApprovalDialog(JObj(<< <<OAUTH_REQ_INFO, oauthReqInfo>> >>))

\* lines 75-95
AuthorizeClient(request, oauthReqInfo, clientId, cookieSecret) ==
    IF clientId = <<>> THEN createAdaptiveErrorResponse(400)
    ELSE AuthorizeDecision(oauthReqInfo,
                           clientIdAlreadyApproved(request, clientId, cookieSecret))

\* app.get("/authorize")
GetAuthorizeHandler(request, cookieSecret) ==
    AuthorizeClient(request, parseAuthRequest(request), request.clientId, cookieSecret)

\* app.post("/authorize") redirecting when parseRedirectApproval throws
ApprovedRedirectFailingOpen(parsed) ==
    IF ~parsed.ok THEN Response("redirect", 302, Null, <<>>)
    ELSE redirectToClickUp(GetProp(parsed.v.state, OAUTH_REQ_INFO), parsed.v.setCookie)

\* app.post("/authorize"), lines 119-128
ApprovedRedirect(parsed) ==
    IF ~parsed.ok THEN onError
    ELSE IF ~Truthy(GetProp(parsed.v.state, OAUTH_REQ_INFO))
        THEN createAdaptiveErrorResponse(400)
    ELSE redirectToClickUp(GetProp(parsed.v.state, OAUTH_REQ_INFO), parsed.v.setCookie)

\* app.post("/authorize")
PostAuthorizeHandler(request, cookieSecret) ==
    ApprovedRedirect(parseRedirectApproval(request, cookieSecret))

\* app.notFound
notFound == createAdaptiveErrorResponse(404)

\* ========================================================================
\* The consent protocol as a state machine: one server, one browser, and
\* requests that carry either the browser's cookie or a crafted one.
\* ========================================================================

VARIABLES
    cookieSecret,   \* env.COOKIE_ENCRYPTION_KEY of the deployment
    jar,            \* the consent cookie the browser holds ("name=value") or Null
    phase,          \* "idle": awaiting a request; "responded": resp answers req
    req,            \* the request being answered
    resp,           \* the handler's response to req
    approval,       \* history: the approval that emitted the cookie in jar
    rendered        \* history, kept by Prompt: the client ids a dialog was rendered for

consentVars == <<cookieSecret, jar, phase, req, resp, approval, rendered>>

\* ClickUpService.getAllLists, one call of it
VARIABLES
    upstream,       \* which hierarchy the upstream API holds: "full" or "single"
    failing,        \* the upstream requests that are answered with an error status
    fetched,        \* log: the upstream requests issued so far, in order
    args,           \* the call's teamId and archived arguments
    walk,           \* the call's position and local variables
    result          \* what the call returned or that it threw

treeVars == <<upstream, failing, fetched, args, walk, result>>

\* the task aggregator (getMyTasks, searchTasks, searchTasksAdvanced), one
\* call of it, made directly or by the advanced search tool
VARIABLES
    pages,          \* how many tasks upstream returns for each workspace
    toolArgs,       \* the arguments the advanced search tool was invoked with
    call,           \* the aggregator call: its mode and arguments
    scan,           \* the call's position and local variables
    sent,           \* log: the task queries issued, in order
    answer          \* what the call returned or that it threw

taskVars == <<pages, toolArgs, call, scan, sent, answer>>

VARIABLES
    callback,       \* GET /callback, one request: its query, position and response
    detail          \* ClickUpTaskBasic.getTaskDetail, one call of it

vars == <<consentVars, treeVars, taskVars, callback, detail>>

\* an optional argument or property: absent, or present with a value
None == <<>>
Some(x) == <<x>>

NoCall == [mode |-> "none"]
IdleScan == [pc |-> "idle", userId |-> None, teams |-> <<>>, team |-> 0, tasks |-> <<>>]
NoAnswer == [status |-> "pending"]
IdleCallback == [pc |-> "idle"]
IdleDetail == [pc |-> "idle"]

\* no call of the task aggregator is under way
TaskIdle ==
    /\ pages = [W1 |-> 0, W2 |-> 0]
    /\ toolArgs = None
    /\ call = NoCall
    /\ scan = IdleScan
    /\ sent = <<>>
    /\ answer = NoAnswer

NoArgs == [teamId |-> "", archived |-> "undefined"]
NoResult == [status |-> "pending"]
IdleWalk ==
    [pc |-> "idle", teams |-> <<>>, team |-> 0, spaces |-> <<>>, space |-> 0,
     folders |-> <<>>, folder |-> 0, spaceInfo |-> <<>>, allLists |-> <<>>]

\* no call of getAllLists is under way
TreeIdle ==
    /\ upstream = "full"
    /\ failing = {}
    /\ fetched = <<>>
    /\ args = NoArgs
    /\ walk = IdleWalk
    /\ result = NoResult

\* the secrets "k1" and "k2"
Secrets == {<<107, 49>>, <<107, 50>>}

OtherSecret(secret) == CHOOSE k \in Secrets : k /= secret

\* client ids: "a", "e-acute" (Latin-1, two UTF-8 bytes), a double quote
\* (escaped in JSON) and hiragana "a" (above 0xFF)
ClientIds == {<<97>>, <<233>>, <<34>>, <<12354>>}

NoForm == [parses |-> FALSE, state |-> Null]
Form(state) == [parses |-> TRUE, state |-> state]

NoResponse == Response("none", 0, Null, Null)

\* the state blob for a client id, as the approval dialog posts it
StateOf(clientId) == JObj(<< <<OAUTH_REQ_INFO, JObj(<< <<CLIENT_ID, clientId>> >>)>> >>)

DialogStates ==
    {EncodedDialogState(StateOf(JStr(id))).v :
        id \in {c \in ClientIds : EncodedDialogState(StateOf(JStr(c))).ok}}

\* state blobs no dialog renders: "!!" is no base64, "{" is no JSON
UndecodableStates == { <<33, 33>>, btoa(<<123>>).v }

\* {}, null, {"oauthReqInfo":{}} and a clientId of ""
NoClientStates ==
    { btoa(JsonStringify(JObj(<<>>))).v,
      btoa(JsonStringify(JLit("null"))).v,
      btoa(JsonStringify(JObj(<< <<OAUTH_REQ_INFO, JObj(<<>>)>> >>))).v,
      btoa(JsonStringify(StateOf(JStr(<<>>)))).v }

CraftedStates ==
    UndecodableStates \cup NoClientStates \cup
    { btoa(JsonStringify(StateOf(JNum(<<53>>)))).v,     \* clientId 5
      btoa(<<123, 34, 111, 97, 117, 116, 104, 82, 101, 113, 73, 110, 102, 111, 34, 58, 123, 34, 99, 108, 105, 101, 110, 116, 73, 100, 34, 58, 34, 92, 117, 51, 48, 52, 50, 34, 125, 125>>).v }                            \* clientId "あ"

Forms ==
    {NoForm, Form(Null), Form(<<>>)} \cup {Form(st) : st \in DialogStates \cup CraftedStates}

\* a consent cookie "name=signature.payload" for a payload text, signed as
\* signData signs under a secret
SignedCookie(secret, payloadText) ==
    COOKIE_NAME \o <<61>> \o signData(Utf8Encode(secret), payloadText)
    \o <<46>> \o btoa(payloadText).v

\* the JSON text of a list of client ids
ListText(list) == JsonStringify(JArr([i \in 1..Len(list) |-> JStr(list[i])]))

\* payload texts that are no list of strings: {}, "a", 5, [ (no JSON), the
\* empty text, null, ["a",5], [["a"]]
MalformedPayloads ==
    { <<123, 125>>, <<34, 97, 34>>, <<53>>, <<91>>, <<>>, <<110, 117, 108, 108>>,
      <<91, 34, 97, 34, 44, 53, 93>>, <<91, 91, 34, 97, 34, 93, 93>> }

SignatureOf(cookie) == Split(Drop(cookie, Len(COOKIE_NAME) + 2), 46)[1]
PayloadOf(cookie) == Split(Drop(cookie, Len(COOKIE_NAME) + 2), 46)[2]
WithParts(signatureHex, base64Payload) ==
    COOKIE_NAME \o <<61>> \o signatureHex \o <<46>> \o base64Payload

\* the text with its hexadecimal letters in upper case
UpperCase(hex) == [i \in 1..Len(hex) |-> IF hex[i] >= 97 /\ hex[i] <= 102 THEN hex[i] - 32 ELSE hex[i]]

\* the text with its last hexadecimal digit changed
OtherLastDigit(hex) ==
    [hex EXCEPT ![Len(hex)] = IF hex[Len(hex)] = 48 THEN 49 ELSE 48]

\* the text with its first pair "0d" of hexadecimal digits written "dz"
\* (parseInt reads the digit and stops at the 'z')
RECURSIVE LenientHex(_, _)
LenientHex(hex, i) ==
    IF i + 1 > Len(hex) THEN hex
    ELSE IF hex[i] = 48 THEN [hex EXCEPT ![i] = hex[i + 1], ![i + 1] = 122]
    ELSE LenientHex(hex, i + 2)

\* cookies made from the browser's cookie by altering it
AlteredCookies(cookie) ==
    LET sig == SignatureOf(cookie)
        pay == PayloadOf(cookie)
    IN {  COOKIE_NAME \o <<61>> \o sig,                         \* one part
          WithParts(sig, pay) \o <<46>> \o pay,                 \* three parts
          WithParts(sig, <<33, 33, 33, 33>>),                   \* no base64
          WithParts(sig, SubSeq(pay, 1, 1)),                    \* no base64
          WithParts(UpperCase(sig), pay),                       \* same bytes
          WithParts(sig, StripPadding(pay)),                   \* same bytes
          WithParts(LenientHex(sig, 1), pay),                   \* same bytes
          WithParts(OtherLastDigit(sig), pay),                  \* other tag
          <<115, 105, 100, 61, 49, 59, 32>> \o cookie }         \* "sid=1; " before
       \cup {WithParts(sig, btoa(ListText(<<id>>)).v) :
                id \in {c \in ClientIds : btoa(ListText(<<c>>)).ok}}

\* the Cookie headers a request may carry
CookieHeaders ==
    {Null, jar}
    \cup (IF jar = Null THEN {} ELSE AlteredCookies(jar))
    \cup {SignedCookie(OtherSecret(cookieSecret), ListText(<<id>>)) :
            id \in {c \in ClientIds : btoa(ListText(<<c>>)).ok}}
    \cup {SignedCookie(cookieSecret, p) : p \in MalformedPayloads}

Request(method, clientId, cookie, form) ==
    [method |-> method, clientId |-> clientId, cookie |-> cookie, form |-> form]

NoRequest == Request("none", <<>>, Null, NoForm)

\* the client id an approval was for and the list it emitted
Approval(clientId, clients) == [clientId |-> clientId, clients |-> clients]
NoApproval == Approval(JUndefined, <<>>)
ApprovalOf(parsed) ==
    Approval(GetProp(GetProp(parsed.v.state, OAUTH_REQ_INFO), CLIENT_ID), parsed.v.clients)

ConsentInit ==
    /\ cookieSecret \in Secrets
    /\ jar = Null
    /\ phase = "idle"
    /\ req = NoRequest
    /\ resp = NoResponse
    /\ approval = NoApproval
    /\ rendered = {}
    /\ TreeIdle
    /\ TaskIdle
    /\ callback = IdleCallback
    /\ detail = IdleDetail

\* GET /authorize?client_id=...
GetAuthorize ==
    /\ phase = "idle"
    /\ \E clientId \in ClientIds \cup {<<>>}, cookie \in CookieHeaders :
        /\ req' = Request("GET", clientId, cookie, NoForm)
        /\ resp' = GetAuthorizeHandler(req', cookieSecret)
    /\ phase' = "responded"
    /\ UNCHANGED <<cookieSecret, jar, approval, rendered, treeVars, taskVars, callback, detail>>

\* POST /authorize with a form body
PostAuthorize ==
    /\ phase = "idle"
    /\ \E form \in Forms, cookie \in CookieHeaders :
        /\ req' = Request("POST", <<>>, cookie, form)
        /\ resp' = PostAuthorizeHandler(req', cookieSecret)
    /\ phase' = "responded"
    /\ UNCHANGED <<cookieSecret, jar, approval, rendered, treeVars, taskVars, callback, detail>>

\* any other method on /authorize: no route matches
OtherMethod ==
    /\ phase = "idle"
    /\ \E cookie \in {Null, jar} :
        /\ req' = Request("PUT", <<>>, cookie, NoForm)
        /\ resp' = notFound
    /\ phase' = "responded"
    /\ UNCHANGED <<cookieSecret, jar, approval, rendered, treeVars, taskVars, callback, detail>>

\* the browser takes the response: a Set-Cookie header replaces its cookie,
\* and the exchange is over
Deliver ==
    /\ phase = "responded"
    /\ jar' = IF resp.setCookie = Null THEN jar ELSE Split(resp.setCookie, 59)[1]
    /\ approval' = IF resp.setCookie = Null THEN approval
                   ELSE ApprovalOf(parseRedirectApproval(req, cookieSecret))
    /\ phase' = "idle"
    /\ req' = NoRequest
    /\ resp' = NoResponse
    /\ UNCHANGED <<cookieSecret, rendered, treeVars, taskVars, callback, detail>>

ConsentNext == GetAuthorize \/ PostAuthorize \/ OtherMethod \/ Deliver

ConsentSpec == ConsentInit /\ [][ConsentNext]_vars

\* ========================================================================
\* Properties of the consent codec and the /authorize handlers
\* ========================================================================

\* the consent cookie of a Cookie header (Null when none), its value and its
\* '.'-separated parts
ConsentCookie(header) == IF header = Null THEN Null ELSE FindCookie(CookiesOf(header), 1)
ConsentValue(header) == Drop(ConsentCookie(header), Len(COOKIE_NAME) + 2)
ConsentParts(header) == Split(ConsentValue(header), 46)

\* the payload text is no JSON array, or an array with a non-string element
NotAListOfStrings(text) ==
    \/ ~JsonParse(text).ok
    \/ JsonParse(text).v.t /= "array"
    \/ \E i \in 1..Len(JsonParse(text).v.v) : JsonParse(text).v.v[i].t /= "string"

\* a malformed envelope: a part count other than two, a payload part that is
\* no base64, a payload that is no JSON array of strings
MalformedEnvelope(header) ==
    /\ ConsentCookie(header) /= Null
    /\ \/ Len(ConsentParts(header)) /= 2
       \/ ~atob(ConsentParts(header)[2]).ok
       \/ NotAListOfStrings(atob(ConsentParts(header)[2]).v)

\* the signature part, read as bytes, is the HMAC under the secret of the
\* decoded payload
SignatureMatches(header, secret) ==
    /\ ConsentCookie(header) /= Null
    /\ Len(ConsentParts(header)) = 2
    /\ atob(ConsentParts(header)[2]).ok
    /\ HexToBytes(ConsentParts(header)[1])
         = HmacSha256(Utf8Encode(secret), Utf8Encode(atob(ConsentParts(header)[2]).v))

\* GET /authorize has been answered for a client id and a Cookie header
AnsweredGet == phase = "responded" /\ req.method = "GET" /\ req.clientId /= <<>>

\* isApproved for the answered request
IsApproved == clientIdAlreadyApproved(req, req.clientId, cookieSecret)

\* C1 (as stated): whenever GET /authorize has been answered for a request whose
\* consent cookie is malformed (wrong part count, invalid base64, no JSON
\* array, an array with a non-string element), isApproved returned false and
\* did not throw.
C1_MalformedIsNotApproved ==
    (AnsweredGet /\ MalformedEnvelope(req.cookie)) => IsApproved = Ok(FALSE)

\* the request's cookie was made from the browser's cookie by altering it
AlteredRequest == jar /= Null /\ req.cookie \in AlteredCookies(jar)

\* the request's cookie was signed under the other secret
ForeignRequest ==
    \E id \in ClientIds :
        /\ btoa(ListText(<<id>>)).ok
        /\ req.cookie = SignedCookie(OtherSecret(cookieSecret), ListText(<<id>>))

\* the bytes of the request cookie's signature or payload differ from those of
\* the browser's cookie (a part that cannot be decoded differs)
BytesDiffer ==
    \/ Len(ConsentParts(req.cookie)) /= 2
    \/ HexToBytes(ConsentParts(req.cookie)[1]) /= HexToBytes(ConsentParts(jar)[1])
    \/ atob(ConsentParts(req.cookie)[2]) /= atob(ConsentParts(jar)[2])

Emitted == phase = "responded" /\ req.method = "POST" /\ resp.setCookie /= Null

\* the cookie the browser will hold, and the approval that emitted it
EmittedCookie == Split(resp.setCookie, 59)[1]
NewApproval == ApprovalOf(parseRedirectApproval(req, cookieSecret))

\* a valid ConsentList: client-identifier strings only
AllStrings(clients) == \A i \in 1..Len(clients) : clients[i].t = "string"

NoDuplicates(clients) == Cardinality(Range(clients)) = Len(clients)

\* C3: the cookie that parseRedirectApproval emits for a list of client-id
\* strings under the secret verifies under that secret and decodes to exactly
\* that list, so that isApproved is true for every member.
C3_SignVerifyRoundTrip ==
    (Emitted /\ AllStrings(NewApproval.clients)) =>
        /\ SignatureMatches(EmittedCookie, cookieSecret)
        /\ getApprovedClientsFromCookie(EmittedCookie, cookieSecret)
             = Ok(Clients(StringsOf(JArr(NewApproval.clients))))
        /\ \A i \in 1..Len(NewApproval.clients) :
             clientIdAlreadyApproved(Request("GET", NewApproval.clients[i].v, EmittedCookie, NoForm),
                                     NewApproval.clients[i].v, cookieSecret) = Ok(TRUE)

\* C3 witness: a cookie was emitted for a list of two or more ids, one of
\* them outside ASCII
C3_EmittedLatin1List ==
    /\ Emitted
    /\ AllStrings(NewApproval.clients)
    /\ Len(NewApproval.clients) >= 2
    /\ JStr(<<233>>) \in Range(NewApproval.clients)

\* the form carries no state, or one that cannot be decoded, or one without a
\* client id
BrokenForm ==
    \/ ~req.form.parses
    \/ req.form.state = Null
    \/ req.form.state = <<>>
    \/ req.form.state \in UndecodableStates \cup NoClientStates

\* C4: recordApproval fails for a request that is no POST, and for a POST
\* whose state is missing, empty, undecodable or without a client id; POST
\* /authorize then answers with an error, without a Set-Cookie header and
\* without a redirect.
C4_PostNeverFailsOpen ==
    phase = "responded" =>
        /\ \A method \in {"GET", "PUT"} :
             parseRedirectApproval([req EXCEPT !.method = method], cookieSecret) = Throw
        /\ (req.method = "POST" /\ BrokenForm) =>
             /\ parseRedirectApproval(req, cookieSecret) = Throw
             /\ resp.kind = "error"
             /\ resp.setCookie = Null

\* C4 witness: a POST with the browser's valid cookie and a state without a
\* client id was answered with an error
C4_NoClientIdRefused ==
    /\ phase = "responded"
    /\ req.method = "POST"
    /\ req.form.state \in NoClientStates
    /\ jar /= Null
    /\ req.cookie = jar
    /\ resp.kind = "error"

\* the answered POST approved, for the second time running, the client of the
\* approval that emitted the cookie it carries
ApprovedAgain ==
    /\ Emitted
    /\ jar /= Null
    /\ req.cookie = jar
    /\ approval.clientId.t = "string"
    /\ NewApproval.clientId = approval.clientId

\* C5: approving a client a second time, with the cookie of the first
\* approval, emits the same list of client ids, the client in it once.
C5_IdempotentUnion ==
    ApprovedAgain =>
        /\ Range(NewApproval.clients) = Range(approval.clients)
        /\ NoDuplicates(NewApproval.clients)
        /\ NewApproval.clientId \in Range(NewApproval.clients)

\* C5 witness: the second approval of a client whose first approval emitted a
\* list of two or more
C5_SecondApprovalOfTwo == ApprovedAgain /\ Len(approval.clients) >= 2

\* the answered POST carried the cookie of the previous approval (none before
\* the first) and approved a client-id string
ChainedApproval ==
    /\ Emitted
    /\ req.cookie = jar
    /\ AllStrings(approval.clients)
    /\ NewApproval.clientId.t = "string"

\* C6: over a chain of approvals each carrying the cookie of the previous one,
\* the emitted list is the previous list united with the approved client id.
C6_ListOnlyGrows ==
    ChainedApproval =>
        /\ Range(NewApproval.clients) = Range(approval.clients) \cup {NewApproval.clientId}
        /\ NoDuplicates(NewApproval.clients)

\* C6 witness: a third client was added to a list of two
C6_ThirdClientAdded ==
    /\ ChainedApproval
    /\ Len(approval.clients) = 2
    /\ Len(NewApproval.clients) = 3

\* the consent cookie fails decoding or signature verification
FailsDecodeOrVerify(header) ==
    /\ ConsentCookie(header) /= Null
    /\ MalformedEnvelope(header) \/ ~SignatureMatches(header, cookieSecret)

\* C7 (as stated): GET /authorize with a consent cookie that fails decoding
\* or signature verification is answered with the approval dialog (for a
\* client id the dialog can carry), not with an error or a redirect.
C7_FailedCookieShowsDialog ==
    (/\ AnsweredGet
     /\ EncodedDialogState(StateOf(JStr(req.clientId))).ok
     /\ FailsDecodeOrVerify(req.cookie)) => resp.kind = "dialog"

\* ========================================================================
\* src/src/services/clickup-service.ts: getAllLists and the upstream API
\* ========================================================================

\* at most this many upstream requests fail during one call
MaxFailures == 2

Team(id, name) == [id |-> id, name |-> name]
Item(id, name, archived) == [id |-> id, name |-> name, archived |-> archived]

\* the upstream hierarchies. "full": workspace W1 holds spaces A and B,
\* workspace W2 (without a name) holds space C; L7 is an archived list.
\* "single": workspace W1 alone, holding space S1 alone, which has list L1
\* directly and folder F1 holding list L2.  "reversed": the hierarchy "full"
\* with every collection served in the opposite order.
Hierarchies == {"full", "single", "reversed"}

\* the order upstream serves a collection in
Served(items) ==
    IF upstream = "reversed" THEN [i \in 1..Len(items) |-> items[Len(items) + 1 - i]]
    ELSE items

UpstreamTeams ==
    IF upstream = "single" THEN <<Team("W1", "One")>>
    ELSE Served(<<Team("W1", "One"), Team("W2", "")>>)

UpstreamSpaces(teamId) ==
    IF upstream = "single"
    THEN IF teamId = "W1" THEN <<Item("S1", "Sole", FALSE)>> ELSE <<>>
    ELSE IF teamId = "W1" THEN Served(<<Item("A", "Alpha", FALSE), Item("B", "Beta", FALSE)>>)
    ELSE IF teamId = "W2" THEN <<Item("C", "Gamma", FALSE)>>
    ELSE <<>>

UpstreamFolders(spaceId) ==
    IF upstream = "single"
    THEN IF spaceId = "S1" THEN <<Item("F1", "Inbox", FALSE)>> ELSE <<>>
    ELSE IF spaceId = "A" THEN Served(<<Item("F1", "Inbox", FALSE), Item("F2", "Done", FALSE)>>)
    ELSE IF spaceId = "B" THEN <<Item("F3", "Plans", FALSE)>>
    ELSE <<>>

UpstreamListsInSpace(spaceId) ==
    IF upstream = "single"
    THEN IF spaceId = "S1" THEN <<Item("L1", "a1", FALSE)>> ELSE <<>>
    ELSE IF spaceId = "A" THEN Served(<<Item("L1", "a1", FALSE), Item("L7", "a7", TRUE)>>)
    ELSE IF spaceId = "B" THEN <<Item("L4", "b4", FALSE)>>
    ELSE IF spaceId = "C" THEN <<Item("L6", "c6", FALSE)>>
    ELSE <<>>

UpstreamListsInFolder(folderId) ==
    IF folderId = "F1" THEN <<Item("L2", "f2", FALSE)>>
    ELSE IF folderId = "F2" THEN <<Item("L3", "f3", FALSE)>>
    ELSE IF folderId = "F3" THEN <<Item("L5", "f5", FALSE)>>
    ELSE <<>>

\* the teamId arguments: none, a visible workspace, one that is not visible
TeamIdArgs == {"", "W1", "W9"}
ArchivedArgs == {"undefined", "false", "true"}

SpaceIds == {"A", "B", "C", "S1"}
FolderIds == {"F1", "F2", "F3"}

\* the upstream requests a call can issue
Requests ==
    {<<"getWorkspaces", "">>}
    \cup {<<"getSpaces", id>> : id \in {"W1", "W2", "W9"}}
    \cup {<<"getListsInSpace", id>> : id \in SpaceIds}
    \cup {<<"getFolders", id>> : id \in SpaceIds}
    \cup {<<"getListsInFolder", id>> : id \in FolderIds}

\* upstream answers with the items that are not archived, and with the
\* archived ones too when the query says archived=true
Included(items, archived) ==
    SelectSeq(items, LAMBDA x : ~x.archived \/ archived = "true")

\* a fetch: throws on a response that is not ok, else the parsed body
Fetch(op, id, body) == IF <<op, id>> \in failing THEN Throw ELSE Ok(body)

getWorkspaces == Fetch("getWorkspaces", "", UpstreamTeams)
getSpaces(teamId, archived) ==
    Fetch("getSpaces", teamId, Included(UpstreamSpaces(teamId), archived))
getFolders(spaceId, archived) ==
    Fetch("getFolders", spaceId, Included(UpstreamFolders(spaceId), archived))
getListsInFolder(folderId, archived) ==
    Fetch("getListsInFolder", folderId, Included(UpstreamListsInFolder(folderId), archived))
getListsInSpace(spaceId, archived) ==
    Fetch("getListsInSpace", spaceId, Included(UpstreamListsInSpace(spaceId), archived))

\* a workspace that is not visible resolved to every visible workspace
ScopedTeamsOrAll(teams, teamId) ==
    IF teamId = "" THEN teams
    ELSE IF \E i \in 1..Len(teams) : teams[i].id = teamId
        THEN SelectSeq(teams, LAMBDA t : t.id = teamId)
    ELSE teams

\* getAllLists, lines 185-195: with a teamId the visible workspace of that id,
\* or a placeholder for it; without one every visible workspace
ScopedTeams(teams, teamId) ==
    IF teamId = "" THEN teams
    ELSE IF \E i \in 1..Len(teams) : teams[i].id = teamId
        THEN <<teams[CHOOSE i \in 1..Len(teams) :
                        teams[i].id = teamId /\ \A j \in 1..(i - 1) : teams[j].id /= teamId]>>
    ELSE <<Team(teamId, "Team " \o teamId)>>

\* lines 206-212
NewSpaceInfo(team, space) ==
    [teamId |-> team.id,
     teamName |-> IF team.name = "" THEN "Unknown Team" ELSE team.name,
     spaceId |-> space.id,
     spaceName |-> space.name,
     lists |-> <<>>]

\* lines 218-221 and 232-237: the list with its location
TagSpace(list) ==
    [id |-> list.id, name |-> list.name, archived |-> list.archived, location |-> "space"]
\* a folder's list tagged as if it were the space's own
TagFolderAsSpace(list, folder) == TagSpace(list)
TagFolder(list, folder) ==
    [id |-> list.id, name |-> list.name, archived |-> list.archived, location |-> "folder",
     folderId |-> folder.id, folderName |-> folder.name]

\* the space's direct lists pushed twice
TagAllSpaceTwice(lists) ==
    [i \in 1..Len(lists) |-> TagSpace(lists[i])] \o [i \in 1..Len(lists) |-> TagSpace(lists[i])]
TagAllSpace(lists) == [i \in 1..Len(lists) |-> TagSpace(lists[i])]
TagAllFolder(lists, folder) == [i \in 1..Len(lists) |-> TagFolder(lists[i], folder)]

\* the loop over teams moves on: the next team's spaces are fetched, or the
\* loop is over and the call returns
NextTeam(w) ==
    IF w.team < Len(w.teams) THEN [w EXCEPT !.team = @ + 1, !.pc = "getSpaces"]
    ELSE [w EXCEPT !.pc = "return"]

\* the loop over spaces moves on: a fresh spaceInfo for the next space
NextSpace(w) ==
    IF w.space < Len(w.spaces)
    THEN [w EXCEPT !.space = @ + 1,
                   !.spaceInfo = NewSpaceInfo(w.teams[w.team], w.spaces[w.space + 1]),
                   !.pc = "getListsInSpace"]
    ELSE NextTeam(w)

\* line 246: allLists.push(spaceInfo), then the next space
EndSpace(w) == NextSpace([w EXCEPT !.allLists = Append(@, w.spaceInfo)])

\* the space's catch block discarding what the space had gathered
CatchSpaceDiscarding(w) == EndSpace([w EXCEPT !.spaceInfo.lists = <<>>])

\* the space's catch block leaving the loop over the team's spaces
CatchSpaceAborting(w) == NextTeam([w EXCEPT !.allLists = Append(@, w.spaceInfo)])

\* lines 242-244: the space's catch block warns; the loop body goes on
CatchSpace(w) == EndSpace(w)

\* the loop over folders moves on
NextFolder(w) ==
    IF w.folder < Len(w.folders) THEN [w EXCEPT !.folder = @ + 1, !.pc = "getListsInFolder"]
    ELSE EndSpace(w)

\* the folder's catch block leaving the loop over the space's folders
CatchFolderAborting(w) == EndSpace(w)

\* lines 238-240: the folder's catch block warns; the loop goes on
CatchFolder(w) == NextFolder(w)

\* the team's catch block leaving the loop over the teams
CatchTeamAborting(w) == [w EXCEPT !.pc = "return"]

\* lines 248-250: the team's catch block warns; the loop goes on
CatchTeam(w) == NextTeam(w)

RECURSIVE TotalLists(_)
TotalLists(groups) ==
    IF groups = <<>> THEN 0 ELSE Len(groups[1].lists) + TotalLists(Tail(groups))

Returned(allLists) ==
    [status |-> "returned", success |-> TRUE, data |-> allLists,
     totalLists |-> TotalLists(allLists)]
Thrown == [status |-> "thrown"]

ConsentIdle ==
    /\ cookieSecret = <<107, 49>>
    /\ jar = Null
    /\ phase = "idle"
    /\ req = NoRequest
    /\ resp = NoResponse
    /\ approval = NoApproval
    /\ rendered = {}
    /\ callback = IdleCallback
    /\ detail = IdleDetail

TreeInit ==
    /\ ConsentIdle
    /\ TaskIdle
    /\ upstream \in Hierarchies
    /\ failing \in {f \in SUBSET Requests : Cardinality(f) <= MaxFailures}
    /\ fetched = <<>>
    /\ args = NoArgs
    /\ walk = IdleWalk
    /\ result = NoResult

\* getAllLists(accessToken, teamId, archived) is called
Call ==
    /\ walk.pc = "idle"
    /\ scan.pc = "idle"
    /\ \E teamId \in TeamIdArgs, archived \in ArchivedArgs :
        args' = [teamId |-> teamId, archived |-> archived]
    /\ walk' = [walk EXCEPT !.pc = "getWorkspaces"]
    /\ UNCHANGED <<upstream, failing, fetched, result, consentVars, callback, detail, taskVars>>

\* await this.getWorkspaces: a failure reaches the outer catch and is rethrown
GetWorkspaces ==
    /\ walk.pc = "getWorkspaces"
    /\ fetched' = Append(fetched, <<"getWorkspaces", "">>)
    /\ IF getWorkspaces.ok
       THEN /\ walk' = NextTeam([walk EXCEPT !.teams = ScopedTeams(getWorkspaces.v, args.teamId)])
            /\ result' = result
       ELSE /\ walk' = [walk EXCEPT !.pc = "done"]
            /\ result' = Thrown
    /\ UNCHANGED <<upstream, failing, args, consentVars, callback, detail, taskVars>>

\* await this.getSpaces for the current team
GetSpaces ==
    /\ walk.pc = "getSpaces"
    /\ fetched' = Append(fetched, <<"getSpaces", walk.teams[walk.team].id>>)
    /\ walk' = IF getSpaces(walk.teams[walk.team].id, args.archived).ok
               THEN NextSpace([walk EXCEPT
                        !.spaces = getSpaces(walk.teams[walk.team].id, args.archived).v,
                        !.space = 0])
               ELSE CatchTeam(walk)
    /\ UNCHANGED <<upstream, failing, args, result, consentVars, callback, detail, taskVars>>

\* await this.getListsInSpace for the current space
GetListsInSpace ==
    /\ walk.pc = "getListsInSpace"
    /\ fetched' = Append(fetched, <<"getListsInSpace", walk.spaces[walk.space].id>>)
    /\ walk' = IF getListsInSpace(walk.spaces[walk.space].id, args.archived).ok
               THEN [walk EXCEPT
                        !.spaceInfo.lists = @ \o TagAllSpace(
                            getListsInSpace(walk.spaces[walk.space].id, args.archived).v),
                        !.pc = "getFolders"]
               ELSE CatchSpace(walk)
    /\ UNCHANGED <<upstream, failing, args, result, consentVars, callback, detail, taskVars>>

\* await this.getFolders for the current space
GetFolders ==
    /\ walk.pc = "getFolders"
    /\ fetched' = Append(fetched, <<"getFolders", walk.spaces[walk.space].id>>)
    /\ walk' = IF getFolders(walk.spaces[walk.space].id, args.archived).ok
               THEN NextFolder([walk EXCEPT
                        !.folders = getFolders(walk.spaces[walk.space].id, args.archived).v,
                        !.folder = 0])
               ELSE CatchSpace(walk)
    /\ UNCHANGED <<upstream, failing, args, result, consentVars, callback, detail, taskVars>>

\* await this.getListsInFolder for the current folder
GetListsInFolder ==
    /\ walk.pc = "getListsInFolder"
    /\ fetched' = Append(fetched, <<"getListsInFolder", walk.folders[walk.folder].id>>)
    /\ walk' = IF getListsInFolder(walk.folders[walk.folder].id, args.archived).ok
               THEN NextFolder([walk EXCEPT
                        !.spaceInfo.lists = @ \o TagAllFolder(
                            getListsInFolder(walk.folders[walk.folder].id, args.archived).v,
                            walk.folders[walk.folder])])
               ELSE CatchFolder(walk)
    /\ UNCHANGED <<upstream, failing, args, result, consentVars, callback, detail, taskVars>>

\* return { success: true, data: allLists, totalLists }
Return ==
    /\ walk.pc = "return"
    /\ result' = Returned(walk.allLists)
    /\ walk' = [walk EXCEPT !.pc = "done"]
    /\ UNCHANGED <<upstream, failing, fetched, args, consentVars, callback, detail, taskVars>>

TreeNext ==
    \/ Call
    \/ GetWorkspaces
    \/ GetSpaces
    \/ GetListsInSpace
    \/ GetFolders
    \/ GetListsInFolder
    \/ Return

TreeSpec == TreeInit /\ [][TreeNext]_vars

\* ========================================================================
\* Properties of getAllLists
\* ========================================================================

\* the call is over
Done == walk.pc = "done"

\* the request was issued and answered with an error
Failed(op, id) == <<op, id>> \in failing /\ <<op, id>> \in Range(fetched)

\* the request was issued and answered with its body
Succeeded(op, id) == <<op, id>> \notin failing /\ <<op, id>> \in Range(fetched)

\* the list entries the result holds for a space, over all of its groups
ListsOf(spaceId) ==
    UNION {Range(g.lists) : g \in {h \in Range(result.data) : h.spaceId = spaceId}}

\* what upstream holds for the call's archived argument: a space's direct
\* lists, a folder's lists and a space's folders, tagged as the result tags them
DirectLists(spaceId) ==
    Range(TagAllSpace(Included(UpstreamListsInSpace(spaceId), args.archived)))
FoldersIn(spaceId) == Range(Included(UpstreamFolders(spaceId), args.archived))
FolderLists(folder) ==
    Range(TagAllFolder(Included(UpstreamListsInFolder(folder.id), args.archived), folder))
AllListsIn(spaceId) ==
    DirectLists(spaceId) \cup UNION {FolderLists(f) : f \in FoldersIn(spaceId)}

FullySucceeded(spaceId) ==
    /\ Succeeded("getListsInSpace", spaceId)
    /\ Succeeded("getFolders", spaceId)
    /\ \A f \in FoldersIn(spaceId) : Succeeded("getListsInFolder", f.id)

\* a fetch of the space or of one of its folders failed
FailedIn(spaceId) ==
    \/ Failed("getListsInSpace", spaceId)
    \/ Failed("getFolders", spaceId)
    \/ \E f \in FolderIds : Failed("getListsInFolder", f)
                           /\ f \in {g.id : g \in Range(UpstreamFolders(spaceId))}

\* the two spaces belong to one workspace
SameTeam(s1, s2) ==
    \E i \in 1..Len(UpstreamTeams) :
        {s1, s2} \subseteq {x.id : x \in Range(UpstreamSpaces(UpstreamTeams[i].id))}

\* C9: a failure while one space is traversed does not abort the traversal:
\* the call returns with success = true, every other space of the workspace
\* is still traversed, and the result holds every list of every other space
\* whose fetches all succeeded.
C9_OtherSpacesSurvive ==
    Done => \A a \in SpaceIds :
        FailedIn(a) =>
            /\ result.status = "returned"
            /\ result.success = TRUE
            /\ \A b \in SpaceIds \ {a} :
                 /\ (SameTeam(a, b) /\ ~FailedIn(b)) => FullySucceeded(b)
                 /\ FullySucceeded(b) => ListsOf(b) = AllListsIn(b)

\* C9 witness: the folder fetch of space A failed and the result holds the
\* direct list and the folder list of space B
C9_SpaceBAfterFailedA ==
    /\ Done
    /\ Failed("getFolders", "A")
    /\ result.success = TRUE
    /\ ListsOf("B") = AllListsIn("B")
    /\ Cardinality(ListsOf("B")) = 2

\* the entries of the result that carry the folder's id
ListsTaggedWith(folderId) ==
    {e \in UNION {Range(g.lists) : g \in Range(result.data)} :
        e.location = "folder" /\ e.folderId = folderId}

\* C10: when the fetch of one folder's lists fails, the result holds no list
\* of that folder, and still holds the space's direct lists and the lists of
\* every other folder of the space whose fetch succeeded.
C10_OtherFoldersSurvive ==
    Done => \A s \in SpaceIds : \A f \in FoldersIn(s) :
        Failed("getListsInFolder", f.id) =>
            /\ result.status = "returned"
            /\ ListsTaggedWith(f.id) = {}
            /\ DirectLists(s) \subseteq ListsOf(s)
            /\ \A g \in FoldersIn(s) \ {f} :
                 IF Failed("getListsInFolder", g.id)
                 THEN ListsTaggedWith(g.id) = {}
                 ELSE /\ Succeeded("getListsInFolder", g.id)
                      /\ FolderLists(g) \subseteq ListsOf(s)
                      /\ FolderLists(g) = ListsTaggedWith(g.id)

\* C10 witness: the lists of folder F1 could not be fetched, and the result
\* holds the direct list of space A and the list of its folder F2
C10_FolderF2AfterFailedF1 ==
    /\ Done
    /\ Failed("getListsInFolder", "F1")
    /\ ListsTaggedWith("F2") /= {}
    /\ DirectLists("A") /= {}
    /\ DirectLists("A") \cup FolderLists(Item("F2", "Done", FALSE)) = ListsOf("A")
\* the call ran with no workspace scope and archived = false over the
\* hierarchy of one workspace, one space, and no fetch of it failed
ScenarioCall ==
    /\ Done
    /\ upstream = "single"
    /\ args = [teamId |-> "", archived |-> "false"]
    /\ Range(fetched) \cap failing = {}

\* C11: over workspace W1 with the single space S1 that has list L1 directly
\* and folder F1 holding list L2, getAllLists with no workspace scope and
\* archived = false, every fetch succeeding, returns exactly one group, for
\* W1/S1, whose lists are exactly L1 tagged "space" and L2 tagged "folder"
\* with folderId F1, and totalLists = 2.
C11_ScenarioOneGroup ==
    ScenarioCall =>
        /\ result.status = "returned"
        /\ Len(result.data) = 1
        /\ result.data[1].teamId = "W1"
        /\ result.data[1].spaceId = "S1"
        /\ Len(result.data[1].lists) = 2
        /\ Range(result.data[1].lists) =
             {[id |-> "L1", name |-> "a1", archived |-> FALSE, location |-> "space"],
              [id |-> "L2", name |-> "f2", archived |-> FALSE, location |-> "folder",
               folderId |-> "F1", folderName |-> "Inbox"]}
        /\ result.totalLists = 2

\* C11 witness: the scenario's call returned, having issued its five fetches
C11_ScenarioReturned ==
    /\ ScenarioCall
    /\ Len(fetched) = 5
    /\ result.status = "returned"
    /\ result.totalLists = 2
\* the groups the result holds for a space
GroupsOf(spaceId) == SelectSeq(result.data, LAMBDA g : g.spaceId = spaceId)

\* how many entries of the sequence carry the list id
Occurrences(lists, id) == Cardinality({i \in 1..Len(lists) : lists[i].id = id})

\* the entry carries one location tag: "space" and no folder field, or
\* "folder" with the id and name of the folder of the space that holds the list
OneLocationTag(e, spaceId) ==
    \/ /\ e.location = "space"
       /\ DOMAIN e = {"id", "name", "archived", "location"}
       /\ e.id \in {l.id : l \in Range(UpstreamListsInSpace(spaceId))}
    \/ /\ e.location = "folder"
       /\ DOMAIN e = {"id", "name", "archived", "location", "folderId", "folderName"}
       /\ \E f \in FoldersIn(spaceId) :
            /\ e.folderId = f.id
            /\ e.folderName = f.name
            /\ e.id \in {l.id : l \in Range(UpstreamListsInFolder(f.id))}

\* C13: in every result of getAllLists, a space whose fetches all succeeded
\* has one group; each list reachable from the space (directly or through a
\* folder) appears exactly once in it, and each entry carries exactly one
\* location tag: "space" with no folder id, or "folder" with the id and name
\* of the folder it was fetched from.
C13_EachListOnceWithOneTag ==
    (Done /\ result.status = "returned") => \A s \in SpaceIds :
        FullySucceeded(s) =>
            /\ Len(GroupsOf(s)) = 1
            /\ \A e \in AllListsIn(s) :
                 /\ e \in Range(GroupsOf(s)[1].lists)
                 /\ Occurrences(GroupsOf(s)[1].lists, e.id) = 1
            /\ \A e \in Range(GroupsOf(s)[1].lists) :
                 /\ e \in AllListsIn(s)
                 /\ OneLocationTag(e, s)

\* C13 witness: space A was traversed with archived = true and its group
\* holds its two direct lists and the two lists of its folders
C13_FourListsOfSpaceA ==
    /\ Done
    /\ result.status = "returned"
    /\ FullySucceeded("A")
    /\ Len(GroupsOf("A")) = 1
    /\ Len(GroupsOf("A")[1].lists) = 4
    /\ {e.location : e \in Range(GroupsOf("A")[1].lists)} = {"space", "folder"}
\* ========================================================================
\* src/unnamed/part_005, part_007, part_008 and
\* src/src/services/clickup-service.ts: the task aggregator
\* ========================================================================

\* a number as a JavaScript value
NumVal(n) == [t |-> "number", v |-> <<n>>]

\* a task as upstream returns it; status and custom_fields may be absent
CustomField(id, value) == [id |-> id, value |-> value]
RawTask(id, status, customFields) ==
    [id |-> id, name |-> "task " \o id, status |-> status, custom_fields |-> customFields]

\* the tasks upstream holds for workspace W1: T1..T6 carry the custom fields
\* f1 and f2 in every shape (number, string of digits, no value, field
\* missing, no custom_fields property), the others none
TasksOfW1 ==
    <<RawTask("T1", Some("open"), Some(<<CustomField("f1", NumVal(15))>>)),
      RawTask("T2", Some("open"),
              Some(<<CustomField("f1", NumVal(25)), CustomField("f2", JStr(<<120>>))>>)),
      RawTask("T3", None, Some(<<CustomField("f2", JStr(<<120>>))>>)),
      RawTask("T4", Some("done"), None),
      RawTask("T5", Some("open"),
              Some(<<CustomField("f1", JStr(<<49, 53>>)), CustomField("f2", JStr(<<120>>))>>)),
      RawTask("T6", Some("open"), Some(<<CustomField("f1", JUndefined)>>)),
      RawTask("T7", Some("open"), Some(<<>>)),
      RawTask("T8", Some("open"), Some(<<>>)),
      RawTask("T9", Some("open"), Some(<<>>)),
      RawTask("T10", Some("open"), Some(<<>>)),
      RawTask("T11", Some("open"), Some(<<>>)),
      RawTask("T12", Some("open"), Some(<<>>)),
      RawTask("T13", Some("open"), Some(<<>>)),
      RawTask("T14", Some("open"), Some(<<>>)),
      RawTask("T15", Some("open"), Some(<<>>))>>

TasksOfW2 ==
    <<RawTask("U1", Some("open"),
              Some(<<CustomField("f1", NumVal(15)), CustomField("f2", JStr(<<120>>))>>))>>

\* the page of tasks upstream answers a workspace's task query with
UpstreamTasks(teamId) ==
    IF teamId = "W1" THEN SubSeq(TasksOfW1, 1, pages.W1)
    ELSE IF teamId = "W2" THEN SubSeq(TasksOfW2, 1, pages.W2)
    ELSE <<>>

\* how many tasks a page of W1 and of W2 can hold
PageSizes == [W1 : {0, 2, 6, 15}, W2 : {0, 1}]

\* the requests a call of the aggregator can issue
TaskRequests ==
    {<<"getUserInfo", "">>, <<"getWorkspaces", "">>}
    \cup {<<"getTasks", id>> : id \in {"W1", "W2", "W9"}}

\* src/src/auth/user.ts: the user's id
getUserInfo == Fetch("getUserInfo", "", <<56, 49>>)

\* part_005, formatTaskDates: a new object with the listed properties only
\* (of which the model keeps id, name and status); custom_fields is not one
formatTaskDates(task) ==
    [id |-> task.id, name |-> task.name, status |-> task.status]

\* part_007 lines 82-89: the formatted task with its workspace
FormattedWithTeam(task, team) ==
    [id |-> formatTaskDates(task).id,
     name |-> formatTaskDates(task).name,
     status |-> formatTaskDates(task).status,
     teamId |-> team.id,
     teamName |-> IF team.name = "" THEN "Unknown Team" ELSE team.name]

\* clickup-service.ts lines 628-632: the task as fetched with its workspace
RawWithTeam(task, team) ==
    [id |-> task.id, name |-> task.name, status |-> task.status,
     custom_fields |-> task.custom_fields,
     teamId |-> team.id,
     teamName |-> IF team.name = "" THEN "Unknown Team" ELSE team.name]

\* the tasks of one page as the mode adds them to the merged list
TasksWithTeamInfo(mode, tasks, team) ==
    [i \in 1..Len(tasks) |-> IF mode = "service" THEN RawWithTeam(tasks[i], team)
                             ELSE FormattedWithTeam(tasks[i], team)]

\* ------------------------------------------------------------------------
\* part_008: filterByCustomFields
\* ------------------------------------------------------------------------

\* the expected value of a customFields entry: a scalar (NumVal, JStr), a
\* collection of scalars, or an object that may have min and max
Entry(fieldId, expected) == [id |-> fieldId, expected |-> expected]
Collection(values) == [t |-> "array", items |-> values]
MinMax(min, max) == [t |-> "object", min |-> min, max |-> max]

\* a === b for primitive values and objects (two objects are never the same)
StrictEquals(a, b) == a.t = b.t /\ a.t /= "object" /\ a.t /= "array" /\ a.v = b.v

\* Number(string) for strings of white space, decimal digits or other text
RECURSIVE DecimalValue(_)
DecimalValue(digits) ==
    IF digits = <<>> THEN 0
    ELSE 10 * DecimalValue(SubSeq(digits, 1, Len(digits) - 1)) + (digits[Len(digits)] - 48)

StringToNumber(s) ==
    IF Trim(s) = <<>> THEN Some(0)
    ELSE IF \A i \in 1..Len(Trim(s)) : IsDigit(Trim(s)[i]) THEN Some(DecimalValue(Trim(s)))
    ELSE None

\* Number(value): a number, or None for NaN
ToNumber(value) ==
    IF value.t = "number" THEN value.v
    ELSE IF value.t = "string" THEN StringToNumber(value.v)
    ELSE IF value.t \in {"null", "false"} THEN Some(0)
    ELSE IF value.t = "true" THEN Some(1)
    ELSE None

\* lines 257-269: the field's value against the entry's expected value
MatchesExpected(actualValue, expectedValue) ==
    IF expectedValue.t = "array"
    THEN \E i \in 1..Len(expectedValue.items) :
            StrictEquals(expectedValue.items[i], actualValue)
    ELSE IF expectedValue.t = "object"
    THEN /\ expectedValue.min /= None
         /\ expectedValue.max /= None
         /\ ToNumber(actualValue) /= None
         /\ ToNumber(actualValue)[1] >= expectedValue.min[1]
         /\ ToNumber(actualValue)[1] <= expectedValue.max[1]
    ELSE StrictEquals(actualValue, expectedValue)

\* lines 253-254: task.custom_fields.find(cf => cf.id === fieldId)
FindField(fields, fieldId) == SelectSeq(fields, LAMBDA cf : cf.id = fieldId)

\* a missing field counted as a match
MatchesEntryOrLacksField(fields, entry) ==
    \/ FindField(fields, entry.id) = <<>>
    \/ MatchesExpected(FindField(fields, entry.id)[1].value, entry.expected)

\* lines 252-270, one entry of the mapping
MatchesEntry(fields, entry) ==
    /\ FindField(fields, entry.id) /= <<>>
    /\ MatchesExpected(FindField(fields, entry.id)[1].value, entry.expected)

\* lines 249-271, one task
MatchesCustomFields(task, customFields) ==
    /\ "custom_fields" \in DOMAIN task
    /\ task.custom_fields /= None
    /\ \A i \in 1..Len(customFields) : MatchesEntry(task.custom_fields[1], customFields[i])

filterByCustomFields(tasks, customFields) ==
    SelectSeq(tasks, LAMBDA task : MatchesCustomFields(task, customFields))
\* ------------------------------------------------------------------------
\* part_008: AdvancedSearchFilters and setSearchParameters
\* ------------------------------------------------------------------------

\* lines 12-58: every property of the filter is optional
NoFilters ==
    [searchTerm |-> None, teamId |-> None, statuses |-> None, priorities |-> None,
     assigneeIds |-> None, creatorIds |-> None, tags |-> None, parentTaskId |-> None,
     dueDateFrom |-> None, dueDateTo |-> None, startDateFrom |-> None, startDateTo |-> None,
     createdDateFrom |-> None, createdDateTo |-> None,
     updatedDateFrom |-> None, updatedDateTo |-> None,
     includeSubtasks |-> None, includeArchived |-> None, includeClosed |-> None,
     customFields |-> None, limit |-> None, page |-> None]

\* the date bounds of a filter and the query parameter of each
DateBounds ==
    <<"dueDateFrom", "dueDateTo", "startDateFrom", "startDateTo",
      "createdDateFrom", "createdDateTo", "updatedDateFrom", "updatedDateTo">>
DateParameters ==
    <<"due_date_gt", "due_date_lt", "start_date_gt", "start_date_lt",
      "date_created_gt", "date_created_lt", "date_updated_gt", "date_updated_lt">>

\* x || fallback for an optional number
OrDefault(x, fallback) == IF x = None \/ x[1] = 0 THEN fallback ELSE x[1]

\* Boolean.prototype.toString
BoolText(b) == IF b THEN <<116, 114, 117, 101>> ELSE <<102, 97, 108, 115, 101>>

\* URLSearchParams.set on a list of name/value pairs: the first pair of the
\* name takes the value and the others are removed, or the pair is appended
RECURSIVE WithoutName(_, _)
WithoutName(params, name) ==
    IF params = <<>> THEN <<>>
    ELSE IF params[1][1] = name THEN WithoutName(Tail(params), name)
    ELSE <<params[1]>> \o WithoutName(Tail(params), name)

RECURSIVE ParamsSet(_, _, _)
ParamsSet(params, name, value) ==
    IF params = <<>> THEN <<<<name, value>>>>
    ELSE IF params[1][1] = name THEN <<<<name, value>>>> \o WithoutName(Tail(params), name)
    ELSE <<params[1]>> \o ParamsSet(Tail(params), name, value)

\* values.forEach(v => url.searchParams.append(name, v)) when the optional
\* array is present and not empty
AppendEach(params, name, values) ==
    IF values = None THEN params
    ELSE params \o [i \in 1..Len(values[1]) |-> <<name, values[1][i]>>]

\* if (text) url.searchParams.set(name, text)
SetIfText(params, name, text) ==
    IF text = None \/ text[1] = <<>> THEN params ELSE ParamsSet(params, name, text[1])

\* if (number) url.searchParams.set(name, number.toString())
SetIfNumber(params, name, number) ==
    IF number = None \/ number[1] = 0 THEN params
    ELSE ParamsSet(params, name, ToDecimal(number[1]))

\* if (flag !== undefined) url.searchParams.set(name, flag.toString())
SetIfDefined(params, name, flag) ==
    IF flag = None THEN params ELSE ParamsSet(params, name, BoolText(flag[1]))

\* priorities.forEach(priority => ... priority.toString())
PriorityTexts(priorities) ==
    IF priorities = None THEN None
    ELSE Some([i \in 1..Len(priorities[1]) |-> ToDecimal(priorities[1][i])])

\* lines 158-165: search, limit, page
SetPaging(params, filters) ==
    ParamsSet(ParamsSet(SetIfText(params, "search", filters.searchTerm),
                        "limit", ToDecimal(OrDefault(filters.limit, 15))),
              "page", ToDecimal(OrDefault(filters.page, 0)))

\* lines 167-205: statuses, priorities, assignees, creators, tags, parent
SetInclusions(params, filters) ==
    SetIfText(
        AppendEach(AppendEach(AppendEach(AppendEach(AppendEach(params,
            "statuses[]", filters.statuses),
            "priorities[]", PriorityTexts(filters.priorities)),
            "assignees[]", filters.assigneeIds),
            "creators[]", filters.creatorIds),
            "tags[]", filters.tags),
        "parent", filters.parentTaskId)

\* lines 207-231: the eight date bounds, in the order of DateBounds
RECURSIVE SetDates(_, _, _)
SetDates(params, filters, i) ==
    IF i > Len(DateBounds) THEN params
    ELSE SetDates(SetIfNumber(params, DateParameters[i], filters[DateBounds[i]]),
                  filters, i + 1)

\* lines 233-242: subtasks, include_archived, include_closed
SetOptions(params, filters) ==
    SetIfDefined(SetIfDefined(SetIfDefined(params,
        "subtasks", filters.includeSubtasks),
        "include_archived", filters.includeArchived),
        "include_closed", filters.includeClosed)

\* the query with the customFields mapping sent upstream too
setSearchParametersAndCustomFields(filters) ==
    SetOptions(SetDates(SetInclusions(SetPaging(<<>>, filters), filters), filters, 1), filters)
        \o (IF filters.customFields = None THEN <<>>
            ELSE [i \in 1..Len(filters.customFields[1]) |->
                    <<"custom_fields", filters.customFields[1][i].id>>])

\* setSearchParameters(url, filters) on the URL of a team's tasks, which has
\* no query yet: the query it leaves
setSearchParameters(filters) ==
    SetOptions(SetDates(SetInclusions(SetPaging(<<>>, filters), filters), filters, 1), filters)

\* part_007 lines 60-63 (getMyTasks) and 154-159 (searchTasks);
\* clickup-service.ts lines 592-611 with no options
QueryOf(c, userId) ==
    IF c.mode = "advanced" THEN setSearchParameters(c.filters)
    ELSE IF c.mode = "assigned"
    THEN ParamsSet(ParamsSet(ParamsSet(<<>>, "assignees[]", userId),
                             "limit", ToDecimal(c.limit)), "page", ToDecimal(c.page))
    ELSE IF c.mode = "search"
    THEN ParamsSet(ParamsSet(ParamsSet(ParamsSet(<<>>, "search", c.searchTerm),
                                       "limit", ToDecimal(c.limit)),
                             "page", ToDecimal(c.page)),
                   "include_closed", BoolText(TRUE))
    ELSE ParamsSet(<<>>, "assignees[]", userId)
\* ------------------------------------------------------------------------
\* part_007 and part_008: one call of the aggregator, step by step
\* ------------------------------------------------------------------------

\* the calls: getMyTasks and searchTasks of part_007 (limit = 15 and page = 0
\* when the argument is not given), searchTasksAdvanced of part_008, and
\* getMyTasks of clickup-service.ts
GetMyTasksCall(teamId, limit, page) ==
    [mode |-> "assigned", teamId |-> teamId,
     limit |-> IF limit = None THEN 15 ELSE limit[1],
     page |-> IF page = None THEN 0 ELSE page[1],
     searchTerm |-> <<>>, filters |-> NoFilters]
SearchTasksCall(searchTerm, teamId, limit, page) ==
    [mode |-> "search", teamId |-> teamId,
     limit |-> IF limit = None THEN 15 ELSE limit[1],
     page |-> IF page = None THEN 0 ELSE page[1],
     searchTerm |-> searchTerm, filters |-> NoFilters]
SearchTasksAdvancedCall(filters) ==
    [mode |-> "advanced", teamId |-> IF filters.teamId = None THEN "" ELSE filters.teamId[1],
     limit |-> OrDefault(filters.limit, 15),
     page |-> OrDefault(filters.page, 0),
     searchTerm |-> <<>>, filters |-> filters]
ServiceGetMyTasksCall(teamId) ==
    [mode |-> "service", teamId |-> teamId, limit |-> 0, page |-> 0,
     searchTerm |-> <<>>, filters |-> NoFilters]

\* the loop over teams moves on: the next team's tasks are fetched, or the
\* loop is over and the call returns
NextTaskTeam(sc) ==
    IF sc.team < Len(sc.teams) THEN [sc EXCEPT !.team = @ + 1, !.pc = "getTasks"]
    ELSE [sc EXCEPT !.pc = "return"]

\* a team whose response is not ok stops the whole loop
SkipTeamAndRest(sc) == [sc EXCEPT !.pc = "return"]

\* a team whose response is not ok is fetched again
RetryTeam(sc) == [sc EXCEPT !.pc = "getTasks"]

\* part_007 lines 72-77, part_008 lines 109-112: warn and continue
SkipTeam(sc) == NextTaskTeam(sc)

\* part_008 lines 131-135: the merged list, filtered when the filter has a
\* customFields mapping
FilteredResults(c, tasks) ==
    IF c.mode = "advanced" /\ c.filters.customFields /= None
    THEN filterByCustomFields(tasks, c.filters.customFields[1])
    ELSE tasks

\* hasMore whenever the merged list is not empty
HasMoreIfAny(count, limit) == count > 0

\* part_007 lines 105 and 201, part_008 line 145
HasMore(count, limit) == count = limit

\* part_007 lines 97-108 and 193-204, part_008 lines 137-148,
\* clickup-service.ts lines 640-645
TaskResult(c, tasks, userId) ==
    [status |-> "returned", success |-> TRUE, tasks |-> tasks, totalTasks |-> Len(tasks),
     userId |-> userId,
     pagination |-> IF c.mode = "service" THEN None
                    ELSE Some([limit |-> c.limit, page |-> c.page,
                               hasMore |-> HasMore(Len(tasks), c.limit),
                               nextPage |-> c.page + 1])]
\* the outer catch answering with an empty result
TaskEmptyResult ==
    [status |-> "returned", success |-> TRUE, tasks |-> <<>>, totalTasks |-> 0,
     userId |-> None, pagination |-> None]

\* part_007 lines 109-113 and 205-209, part_008 lines 149-151,
\* clickup-service.ts lines 646-648: the outer catch rethrows
TaskError == [status |-> "thrown"]

\* the arguments of the calls: limits within the documented 1..100, or none
TaskLimits == {None, Some(2), Some(3)}
TaskPages == {None, Some(1)}
SearchTerms == {<<98, 117, 103>>}

\* the customFields mappings: none, the empty one, a range, a scalar, a
\* collection, two entries, an object that has no max
CustomFieldMappings ==
    {None,
     Some(<<>>),
     Some(<<Entry("f1", MinMax(Some(10), Some(20)))>>),
     Some(<<Entry("f1", NumVal(15))>>),
     Some(<<Entry("f1", Collection(<<NumVal(25), JStr(<<49, 53>>)>>))>>),
     Some(<<Entry("f1", MinMax(Some(10), Some(20))), Entry("f2", JStr(<<120>>))>>),
     Some(<<Entry("f1", MinMax(Some(10), None))>>)}

\* the filters of the direct calls of searchTasksAdvanced
DirectFilters ==
    {[NoFilters EXCEPT !.searchTerm = Some(<<98, 117, 103>>),
                       !.priorities = Some(<<3>>),
                       !.dueDateTo = Some(86400000),
                       !.includeClosed = Some(FALSE),
                       !.teamId = IF teamId = "" THEN None ELSE Some(teamId),
                       !.limit = limit, !.page = page, !.customFields = customFields] :
        teamId \in TeamIdArgs, limit \in TaskLimits, page \in TaskPages,
        customFields \in CustomFieldMappings}

ClientCalls ==
    {GetMyTasksCall(teamId, limit, page) :
        teamId \in TeamIdArgs, limit \in TaskLimits, page \in TaskPages}
    \cup {SearchTasksCall(term, teamId, limit, page) :
        term \in SearchTerms, teamId \in TeamIdArgs, limit \in TaskLimits, page \in TaskPages}
    \cup {SearchTasksAdvancedCall(filters) : filters \in DirectFilters}
    \cup {ServiceGetMyTasksCall(teamId) : teamId \in TeamIdArgs}

TreeQuiet ==
    /\ upstream = "full"
    /\ args = NoArgs
    /\ walk = IdleWalk
    /\ result = NoResult

TaskInit ==
    /\ ConsentIdle
    /\ TreeQuiet
    /\ failing \in {f \in SUBSET TaskRequests : Cardinality(f) <= MaxFailures}
    /\ fetched = <<>>
    /\ pages \in PageSizes
    /\ toolArgs = None
    /\ call = NoCall
    /\ scan = IdleScan
    /\ sent = <<>>
    /\ answer = NoAnswer

\* a method of the API client is called
CallClient ==
    /\ scan.pc = "idle"
    /\ walk.pc = "idle"
    /\ \E c \in ClientCalls :
        /\ call' = c
        /\ scan' = [scan EXCEPT !.pc = IF c.mode \in {"assigned", "service"}
                                       THEN "getUserInfo" ELSE "getWorkspaces"]
    /\ UNCHANGED <<pages, toolArgs, sent, answer, treeVars, consentVars, callback, detail>>

\* await getUserInfo: a failure reaches the outer catch and is rethrown
TaskGetUserInfo ==
    /\ scan.pc = "getUserInfo"
    /\ fetched' = Append(fetched, <<"getUserInfo", "">>)
    /\ IF getUserInfo.ok
       THEN /\ scan' = [scan EXCEPT !.userId = Some(getUserInfo.v), !.pc = "getWorkspaces"]
            /\ answer' = answer
       ELSE /\ scan' = [scan EXCEPT !.pc = "done"]
            /\ answer' = TaskError
    /\ UNCHANGED <<pages, toolArgs, call, sent, upstream, failing, args, walk, result,
                   consentVars, callback, detail>>

\* await getWorkspaces: a failure reaches the outer catch and is rethrown
TaskGetWorkspaces ==
    /\ scan.pc = "getWorkspaces"
    /\ fetched' = Append(fetched, <<"getWorkspaces", "">>)
    /\ IF getWorkspaces.ok
       THEN /\ scan' = NextTaskTeam([scan EXCEPT
                            !.teams = ScopedTeams(getWorkspaces.v, call.teamId)])
            /\ answer' = answer
       ELSE /\ scan' = [scan EXCEPT !.pc = "done"]
            /\ answer' = TaskError
    /\ UNCHANGED <<pages, toolArgs, call, sent, upstream, failing, args, walk, result,
                   consentVars, callback, detail>>

\* the query of the current team's tasks is built and fetched
GetTasks ==
    /\ scan.pc = "getTasks"
    /\ sent' = Append(sent, [teamId |-> scan.teams[scan.team].id,
                             params |-> QueryOf(call, IF scan.userId = None THEN <<>>
                                                      ELSE scan.userId[1])])
    /\ fetched' = Append(fetched, <<"getTasks", scan.teams[scan.team].id>>)
    /\ scan' = IF Fetch("getTasks", scan.teams[scan.team].id, <<>>).ok
               THEN NextTaskTeam([scan EXCEPT !.tasks = @ \o TasksWithTeamInfo(
                        call.mode, UpstreamTasks(scan.teams[scan.team].id),
                        scan.teams[scan.team])])
               ELSE SkipTeam(scan)
    /\ UNCHANGED <<pages, toolArgs, call, answer, upstream, failing, args, walk, result,
                   consentVars, callback, detail>>

\* the call returns its result
TaskReturn ==
    /\ scan.pc = "return"
    /\ answer' = TaskResult(call, FilteredResults(call, scan.tasks), scan.userId)
    /\ scan' = [scan EXCEPT !.pc = "done"]
    /\ UNCHANGED <<pages, toolArgs, call, sent, treeVars, consentVars, callback, detail>>

TaskNext ==
    \/ CallClient
    \/ TaskGetUserInfo
    \/ TaskGetWorkspaces
    \/ GetTasks
    \/ TaskReturn

TaskSpec == TaskInit /\ [][TaskNext]_vars
\* ------------------------------------------------------------------------
\* part_009 lines 535-598: the advanced search tool
\* ------------------------------------------------------------------------

\* part_008 lines 61-66
PRIORITIES == [URGENT |-> 1, HIGH |-> 2, NORMAL |-> 3, LOW |-> 4]

\* part_008 lines 336-344
createPriorityFilter(priorities) ==
    [i \in 1..Len(priorities) |->
        [urgent |-> PRIORITIES.URGENT, high |-> PRIORITIES.HIGH,
         normal |-> PRIORITIES.NORMAL, low |-> PRIORITIES.LOW][priorities[i]]]

\* the levels numbered from the least urgent
priorityMapLowFirst == [urgent |-> 4, high |-> 3, normal |-> 2, low |-> 1]

\* part_009 line 560
priorityMap == [urgent |-> 1, high |-> 2, normal |-> 3, low |-> 4]

\* line 561: args.priorities?.map(p => priorityMap[p])
MappedPriorities(priorities) ==
    IF priorities = None THEN None
    ELSE Some([i \in 1..Len(priorities[1]) |-> priorityMap[priorities[1][i]]])

\* new Date(text).getTime() for the ISO forms YYYY-MM-DD and
\* YYYY-MM-DDTHH:mm:ss.sssZ, both UTC; None (NaN) for any other text
AllDigits(s) == \A i \in 1..Len(s) : IsDigit(s[i])

IsIsoDate(s) ==
    /\ Len(s) = 10
    /\ s[5] = 45
    /\ s[8] = 45
    /\ AllDigits(SubSeq(s, 1, 4) \o SubSeq(s, 6, 7) \o SubSeq(s, 9, 10))

IsIsoTime(s) ==
    /\ Len(s) = 14
    /\ s[1] = 84
    /\ s[4] = 58
    /\ s[7] = 58
    /\ s[10] = 46
    /\ s[14] = 90
    /\ AllDigits(SubSeq(s, 2, 3) \o SubSeq(s, 5, 6) \o SubSeq(s, 8, 9) \o SubSeq(s, 11, 13))

DaysInMonth(y, m) ==
    IF m = 2 THEN (IF y % 4 = 0 /\ (y % 100 /= 0 \/ y % 400 = 0) THEN 29 ELSE 28)
    ELSE IF m \in {4, 6, 9, 11} THEN 30 ELSE 31

\* the days from 1970-01-01 to the day of the proleptic Gregorian calendar
DaysFromCivil(y, m, d) ==
    ((IF m <= 2 THEN y - 1 ELSE y) \div 400) * 146097
    + ((IF m <= 2 THEN y - 1 ELSE y) % 400) * 365
    + (((IF m <= 2 THEN y - 1 ELSE y) % 400) \div 4)
    - (((IF m <= 2 THEN y - 1 ELSE y) % 400) \div 100)
    + ((153 * (IF m > 2 THEN m - 3 ELSE m + 9) + 2) \div 5) + (d - 1)
    - 719468

DayMs(y, m, d) ==
    IF m >= 1 /\ m <= 12 /\ d >= 1 /\ d <= DaysInMonth(y, m)
    THEN Some(DaysFromCivil(y, m, d) * 86400000)
    ELSE None

TimeMs(h, m, sec, ms) ==
    IF h <= 23 /\ m <= 59 /\ sec <= 59 THEN Some(((h * 60 + m) * 60 + sec) * 1000 + ms)
    ELSE None

DateOf(s) ==
    DayMs(DecimalValue(SubSeq(s, 1, 4)), DecimalValue(SubSeq(s, 6, 7)),
          DecimalValue(SubSeq(s, 9, 10)))

TimeOf(s) ==
    TimeMs(DecimalValue(SubSeq(s, 2, 3)), DecimalValue(SubSeq(s, 5, 6)),
           DecimalValue(SubSeq(s, 8, 9)), DecimalValue(SubSeq(s, 11, 13)))

DateParse(s) ==
    IF IsIsoDate(s) THEN DateOf(s)
    ELSE IF Len(s) = 24 /\ IsIsoDate(SubSeq(s, 1, 10)) /\ IsIsoTime(SubSeq(s, 11, 24))
    THEN (IF DateOf(SubSeq(s, 1, 10)) = None \/ TimeOf(SubSeq(s, 11, 24)) = None THEN None
          ELSE Some(DateOf(SubSeq(s, 1, 10))[1] + TimeOf(SubSeq(s, 11, 24))[1]))
    ELSE None

\* lines 564-571: undefined for no text, throws for text that is no date
parseDate(dateStr) ==
    IF dateStr = None \/ dateStr[1] = <<>> THEN Ok(None)
    ELSE IF DateParse(dateStr[1]) = None THEN Throw
    ELSE Ok(DateParse(dateStr[1]))

\* lines 574-596: the filter the tool builds, when every date parses; the
\* three include flags carry the defaults of the tool's schema
ToolFilters(a) ==
    [NoFilters EXCEPT
        !.priorities = MappedPriorities(a.priorities),
        !.dueDateFrom = parseDate(a.dueDateFrom).v,
        !.dueDateTo = parseDate(a.dueDateTo).v,
        !.startDateFrom = parseDate(a.startDateFrom).v,
        !.startDateTo = parseDate(a.startDateTo).v,
        !.createdDateFrom = parseDate(a.createdDateFrom).v,
        !.createdDateTo = parseDate(a.createdDateTo).v,
        !.updatedDateFrom = parseDate(a.updatedDateFrom).v,
        !.updatedDateTo = parseDate(a.updatedDateTo).v,
        !.includeSubtasks = Some(TRUE),
        !.includeArchived = Some(FALSE),
        !.includeClosed = Some(FALSE),
        !.limit = Some(OrDefault(a.limit, 15)),
        !.page = Some(OrDefault(a.page, 0))]

\* the dates given to the tool: 1970-01-01, 1970-01-01T00:00:00.000Z,
\* 1970-01-02T12:00:00.000Z, and the text "soon"
EpochDay == <<49, 57, 55, 48, 45, 48, 49, 45, 48, 49>>
EpochInstant == EpochDay \o <<84, 48, 48, 58, 48, 48, 58, 48, 48, 46, 48, 48, 48, 90>>
NextDayNoon ==
    <<49, 57, 55, 48, 45, 48, 49, 45, 48, 50, 84, 49, 50, 58, 48, 48, 58, 48, 48, 46, 48, 48,
      48, 90>>
NoDate == <<115, 111, 111, 110>>

ToolArguments ==
    [priorities : {None, Some(<<>>), Some(<<"urgent", "high">>),
                   Some(<<"low", "normal", "low">>)},
     dueDateFrom : {None, Some(<<>>), Some(EpochDay), Some(NextDayNoon), Some(NoDate)},
     dueDateTo : {None, Some(EpochInstant), Some(NextDayNoon)},
     startDateFrom : {None, Some(EpochDay), Some(NextDayNoon)},
     startDateTo : {None, Some(EpochDay), Some(NextDayNoon)},
     createdDateFrom : {None, Some(NextDayNoon)},
     createdDateTo : {None, Some(NextDayNoon)},
     updatedDateFrom : {None, Some(NextDayNoon)},
     updatedDateTo : {None, Some(NextDayNoon)},
     limit : {Some(15)},
     page : {Some(0)}]

\* every date of the arguments parses
DatesParse(a) == \A i \in 1..Len(DateBounds) : parseDate(a[DateBounds[i]]).ok

ToolInit ==
    /\ ConsentIdle
    /\ TreeQuiet
    /\ failing = {}
    /\ fetched = <<>>
    /\ pages = [W1 |-> 2, W2 |-> 1]
    /\ toolArgs = None
    /\ call = NoCall
    /\ scan = IdleScan
    /\ sent = <<>>
    /\ answer = NoAnswer

\* the advanced search tool is invoked: it builds the filter and calls
\* searchTasksAdvanced, or a date does not parse and it throws
SearchTasksAdvancedTool ==
    /\ scan.pc = "idle"
    /\ toolArgs = None
    /\ \E a \in ToolArguments :
        /\ toolArgs' = Some(a)
        /\ IF DatesParse(a)
           THEN /\ call' = SearchTasksAdvancedCall(ToolFilters(a))
                /\ scan' = [scan EXCEPT !.pc = "getWorkspaces"]
                /\ answer' = answer
           ELSE /\ call' = call
                /\ scan' = [scan EXCEPT !.pc = "done"]
                /\ answer' = TaskError
    /\ UNCHANGED <<pages, sent, treeVars, consentVars, callback, detail>>

ToolNext ==
    \/ SearchTasksAdvancedTool
    \/ TaskGetWorkspaces
    \/ GetTasks
    \/ TaskReturn

ToolSpec == ToolInit /\ [][ToolNext]_vars

\* ------------------------------------------------------------------------
\* The API client: one call of getAllLists or of the task aggregator
\* ------------------------------------------------------------------------

\* the requests whose failure the client's calls are run against
ClientRequests ==
    {<<"getWorkspaces", "">>, <<"getUserInfo", "">>, <<"getSpaces", "W1">>,
     <<"getTasks", "W1">>}

ClientInit ==
    /\ ConsentIdle
    /\ upstream \in Hierarchies
    /\ failing \in {f \in SUBSET ClientRequests : Cardinality(f) <= MaxFailures}
    /\ fetched = <<>>
    /\ args = NoArgs
    /\ walk = IdleWalk
    /\ result = NoResult
    /\ pages = [W1 |-> 2, W2 |-> 1]
    /\ toolArgs = None
    /\ call = NoCall
    /\ scan = IdleScan
    /\ sent = <<>>
    /\ answer = NoAnswer

ClientNext == TreeNext \/ TaskNext

ClientSpec == ClientInit /\ [][ClientNext]_vars

\* ========================================================================
\* Properties of the API client and of the task aggregator
\* ========================================================================

\* the aggregator call is over
TaskDone == scan.pc = "done"

\* C12: root failures are fatal. When the workspace list cannot be fetched
\* (by getAllLists or by any mode of the task aggregator), or the user cannot
\* be fetched (by the modes that list the user's tasks), the call never
\* returns a result, partial or not, and it ends by throwing.
C12_RootFailuresAreFatal ==
    /\ Failed("getWorkspaces", "") =>
        /\ result.status /= "returned"
        /\ answer.status /= "returned"
        /\ Done => result = Thrown
        /\ TaskDone => answer = TaskError
    /\ Failed("getUserInfo", "") =>
        /\ answer.status /= "returned"
        /\ TaskDone => answer = TaskError /\ Len(fetched) = 1

\* C12 witness: getMyTasks could not fetch the user and threw
C12_IdentityFailureThrown ==
    /\ TaskDone
    /\ call.mode = "assigned"
    /\ Failed("getUserInfo", "")
    /\ answer = TaskError

\* the ids of the tasks of a list, in order
IdsOf(tasks) == [i \in 1..Len(tasks) |-> tasks[i].id]

\* the ids of the tasks upstream serves for the teams whose task fetch is
\* answered, in the order of the teams
RECURSIVE ServedIds(_)
ServedIds(teams) ==
    IF teams = <<>> THEN <<>>
    ELSE (IF <<"getTasks", teams[1].id>> \in failing THEN <<>>
          ELSE IdsOf(UpstreamTasks(teams[1].id))) \o ServedIds(Tail(teams))

\* C14: a failed task fetch for one workspace contributes zero tasks and
\* does not abort the others: the call returns, the merged list holds exactly
\* the tasks of the workspaces whose fetch succeeded (each under its own
\* workspace), and totalTasks is their count.
C14_FailedFetchContributesNothing ==
    (TaskDone /\ \E t \in Range(scan.teams) : Failed("getTasks", t.id)) =>
        /\ answer.status = "returned"
        /\ \A t \in Range(scan.teams) : <<"getTasks", t.id>> \in Range(fetched)
        /\ call.filters.customFields = None => IdsOf(answer.tasks) = ServedIds(scan.teams)
        /\ \A t \in Range(answer.tasks) :
             /\ Succeeded("getTasks", t.teamId)
             /\ t.id \in Range(IdsOf(UpstreamTasks(t.teamId)))
        /\ answer.totalTasks = Len(answer.tasks)

\* C14 witness: "assigned to me" over two workspaces, the second answering
\* with an error: the six tasks of the first are returned
C14_SecondWorkspaceFailed ==
    /\ TaskDone
    /\ call.mode = "assigned"
    /\ call.teamId = ""
    /\ Succeeded("getTasks", "W1")
    /\ Failed("getTasks", "W2")
    /\ pages.W2 = 1
    /\ answer.status = "returned"
    /\ answer.totalTasks = 6

\* the value is the number, or the string of digits, of a number in the range
WithinRange(value, min, max) ==
    /\ value.t \in {"number", "string"}
    /\ value.t = "string" => value.v /= <<>> /\ \A i \in 1..Len(value.v) : IsDigit(value.v[i])
    /\ (IF value.t = "number" THEN value.v[1] ELSE DecimalValue(value.v)) >= min
    /\ (IF value.t = "number" THEN value.v[1] ELSE DecimalValue(value.v)) <= max

\* the value satisfies the entry's expected value: equality for a scalar,
\* membership for a collection, the inclusive range for {min, max}
Satisfies(value, expected) ==
    IF expected.t = "array"
    THEN \E i \in 1..Len(expected.items) :
            expected.items[i].t = value.t /\ expected.items[i].v = value.v
    ELSE IF expected.t = "object"
    THEN /\ expected.min /= None
         /\ expected.max /= None
         /\ WithinRange(value, expected.min[1], expected.max[1])
    ELSE expected.t = value.t /\ expected.v = value.v

\* the task as fetched has, for every entry of the mapping, a custom field of
\* that id whose value satisfies the entry
SatisfiesEvery(task, mapping) ==
    /\ task.custom_fields /= None
    /\ \A i \in 1..Len(mapping) :
         \E k \in 1..Len(task.custom_fields[1]) :
            /\ task.custom_fields[1][k].id = mapping[i].id
            /\ Satisfies(task.custom_fields[1][k].value, mapping[i].expected)

\* an advanced search with a customFields mapping has returned
FilteredSearchReturned ==
    /\ TaskDone
    /\ answer.status = "returned"
    /\ call.mode = "advanced"
    /\ call.filters.customFields /= None

\* the tasks of the team as they were fetched by the call
FetchedTasks(teamId) ==
    IF Succeeded("getTasks", teamId) THEN UpstreamTasks(teamId) ELSE <<>>

\* C15: in the advanced search, a fetched task that has, for every entry of
\* the customFields mapping, a custom field with that id whose value
\* satisfies the entry is retained in the returned tasks.
C15_SatisfyingTaskIsRetained ==
    FilteredSearchReturned =>
        \A teamId \in {"W1", "W2"} : \A task \in Range(FetchedTasks(teamId)) :
            SatisfiesEvery(task, call.filters.customFields[1]) =>
                \E t \in Range(answer.tasks) : t.id = task.id /\ t.teamId = teamId

\* C16: in the advanced search with a customFields mapping no returned task
\* violates an entry: every returned task was fetched with, for every entry,
\* a custom field of that id whose value satisfies it; and the filter applied
\* to the tasks as fetched keeps no task that lacks a named field or whose
\* value fails its constraint.
C16_NoReturnedTaskViolates ==
    FilteredSearchReturned =>
        /\ \A t \in Range(answer.tasks) :
             \E task \in Range(FetchedTasks(t.teamId)) :
                task.id = t.id /\ SatisfiesEvery(task, call.filters.customFields[1])
        /\ \A teamId \in {"W1", "W2"} :
             \A task \in Range(filterByCustomFields(FetchedTasks(teamId),
                                                    call.filters.customFields[1])) :
                SatisfiesEvery(task, call.filters.customFields[1])

\* C16 witness: the search for f1 within 10..20 fetched T2 (f1 = 25) and T3
\* (no f1) and returned neither
C16_ViolatingTasksExcluded ==
    /\ FilteredSearchReturned
    /\ call.filters.customFields = Some(<<Entry("f1", MinMax(Some(10), Some(20)))>>)
    /\ Succeeded("getTasks", "W1")
    /\ pages.W1 = 6
    /\ {"T2", "T3"} \cap Range(IdsOf(answer.tasks)) = {}
    /\ IdsOf(filterByCustomFields(FetchedTasks("W1"), call.filters.customFields[1]))
        = <<"T1", "T5">>

\* the names of the parameters of the upstream task query
RemoteParameters ==
    {"search", "limit", "page", "statuses[]", "priorities[]", "assignees[]", "creators[]",
     "tags[]", "parent", "subtasks", "include_archived", "include_closed"}
    \cup Range(DateParameters)

\* C17: the customFields part of a filter never reaches the upstream query:
\* every query the advanced search sends is the one the same filter without
\* customFields compiles to, made of the remote parameters only, and the
\* customFields predicate has not been applied while tasks are being fetched.
C17_CustomFieldsStayLocal ==
    call.mode = "advanced" =>
        /\ \A i \in 1..Len(sent) :
             /\ sent[i].params = setSearchParameters([call.filters EXCEPT !.customFields = None])
             /\ \A k \in 1..Len(sent[i].params) : sent[i].params[k][1] \in RemoteParameters
        /\ scan.pc \in {"getTasks", "return"} => IdsOf(scan.tasks) = ServedIds(
                SubSeq(scan.teams, 1, IF scan.pc = "return" THEN scan.team ELSE scan.team - 1))

\* C17 witness: an advanced search with a customFields mapping of two
\* entries has queried both workspaces
C17_TwoQueriesWithMapping ==
    /\ FilteredSearchReturned
    /\ Len(call.filters.customFields[1]) = 2
    /\ Len(sent) = 2
    /\ Len(sent[1].params) = 6

ParamValues(params, name) ==
    [i \in 1..Len(SelectSeq(params, LAMBDA q : q[1] = name)) |->
        SelectSeq(params, LAMBDA q : q[1] = name)[i][2]]

\* the upstream value of a symbolic priority
LevelText(priority) ==
    IF priority = "urgent" THEN <<49>>
    ELSE IF priority = "high" THEN <<50>>
    ELSE IF priority = "normal" THEN <<51>>
    ELSE <<52>>

\* C19: symbolic priorities compile to the upstream values urgent = 1,
\* high = 2, normal = 3, low = 4 in the order given: every query of a search
\* made with priorities has them as its repeated priorities[] parameters, and
\* createPriorityFilter maps them to the same numbers.
C19_PrioritiesInOrder ==
    (toolArgs /= None /\ toolArgs[1].priorities /= None) =>
        /\ \A i \in 1..Len(sent) :
             ParamValues(sent[i].params, "priorities[]") =
                [k \in 1..Len(toolArgs[1].priorities[1]) |->
                    LevelText(toolArgs[1].priorities[1][k])]
        /\ [k \in 1..Len(toolArgs[1].priorities[1]) |->
                ToDecimal(createPriorityFilter(toolArgs[1].priorities[1])[k])]
            = [k \in 1..Len(toolArgs[1].priorities[1]) |->
                LevelText(toolArgs[1].priorities[1][k])]

\* C19 witness: the search for ["urgent", "high"] has sent a query whose
\* priorities[] parameters are 1 then 2
C19_UrgentThenHigh ==
    /\ toolArgs /= None
    /\ toolArgs[1].priorities = Some(<<"urgent", "high">>)
    /\ Len(sent) = 2
    /\ ParamValues(sent[1].params, "priorities[]") = <<<<49>>, <<50>>>>

\* C20: date bounds are independent: for each of the eight date bounds of
\* the filter, every query sent has the bound's parameter if and only if the
\* bound is present in the filter, whatever the other bounds are.
C20_DateParameterIffBound ==
    call.mode = "advanced" =>
        \A i \in 1..Len(sent) : \A b \in 1..Len(DateBounds) :
            (ParamValues(sent[i].params, DateParameters[b]) /= <<>>)
                <=> (call.filters[DateBounds[b]] /= None)
\* ========================================================================
\* Further properties of getAllLists
\* ========================================================================

\* the groups the result holds for a workspace
GroupsOfTeam(teamId) == SelectSeq(result.data, LAMBDA g : g.teamId = teamId)

\* C30: in getAllLists a failure fetching the spaces of one workspace
\* contributes zero groups for that workspace and does not prevent the
\* remaining workspaces from being traversed (each has its spaces fetched,
\* and one group for each space fetched) nor the call from returning
\* success = true.
C30_FailedWorkspaceHasNoGroups ==
    Done => \A t \in Range(walk.teams) :
        Failed("getSpaces", t.id) =>
            /\ result.status = "returned"
            /\ result.success = TRUE
            /\ GroupsOfTeam(t.id) = <<>>
            /\ \A u \in Range(walk.teams) \ {t} :
                 /\ <<"getSpaces", u.id>> \in Range(fetched)
                 /\ Succeeded("getSpaces", u.id) =>
                      [i \in 1..Len(GroupsOfTeam(u.id)) |-> GroupsOfTeam(u.id)[i].spaceId]
                        = [i \in 1..Len(getSpaces(u.id, args.archived).v) |->
                                getSpaces(u.id, args.archived).v[i].id]

\* C30 witness: the spaces of W1 could not be fetched, and the result holds
\* the group of space C of workspace W2 with its list
C30_SecondWorkspaceAfterFailedFirst ==
    /\ Done
    /\ Failed("getSpaces", "W1")
    /\ Succeeded("getSpaces", "W2")
    /\ result.success = TRUE
    /\ Len(result.data) = 1
    /\ result.data[1].spaceId = "C"
    /\ result.totalLists = 1
\* the workspace id given to the call is not one of the visible workspaces
NotVisible(teamId) ==
    /\ teamId /= ""
    /\ \A i \in 1..Len(UpstreamTeams) : UpstreamTeams[i].id /= teamId

\* the requests of the kind that were issued, by the id they were for
IssuedFor(op) == {f[2] : f \in {g \in Range(fetched) : g[1] = op}}

\* C24: when the workspace id supplied is not in the visible workspace list,
\* workspace resolution does not fail: getAllLists and every mode of the task
\* aggregator proceed over exactly one workspace, which carries the supplied
\* id and the placeholder name "Team <id>", fetch for no other workspace,
\* and return.
C24_PlaceholderWorkspace ==
    /\ (NotVisible(args.teamId) /\ Succeeded("getWorkspaces", "")) =>
        /\ walk.teams = <<[id |-> args.teamId, name |-> "Team " \o args.teamId]>>
        /\ IssuedFor("getSpaces") \subseteq {args.teamId}
        /\ Done => result.status = "returned" /\ IssuedFor("getSpaces") = {args.teamId}
    /\ (call.mode /= "none" /\ NotVisible(call.teamId) /\ Succeeded("getWorkspaces", "")) =>
        /\ scan.teams = <<[id |-> call.teamId, name |-> "Team " \o call.teamId]>>
        /\ IssuedFor("getTasks") \subseteq {call.teamId}
        /\ TaskDone => answer.status = "returned" /\ IssuedFor("getTasks") = {call.teamId}

\* C24 witness: getAllLists was called for workspace W9, which is not
\* visible, fetched the spaces of W9 alone and returned
C24_ListsOfUnknownWorkspace ==
    /\ Done
    /\ args.teamId = "W9"
    /\ fetched = <<<<"getWorkspaces", "">>, <<"getSpaces", "W9">>>>
    /\ walk.teams[1].name = "Team W9"
    /\ result.status = "returned"
\* how many times the request was issued
TimesIssued(request) == Cardinality({i \in 1..Len(fetched) : fetched[i] = request})

\* C22: no implicit retry: within one call of getAllLists or of the task
\* aggregator each upstream request (the user, the workspace list, and each
\* fetch for a workspace, a space or a folder) is issued at most once, so a
\* request that failed is never issued again.
C22_EachRequestIssuedOnce ==
    \A i \in 1..Len(fetched) : TimesIssued(fetched[i]) = 1

\* C22 witness: getMyTasks has ended after the task fetch of W1 failed, and
\* that fetch was issued once, between the workspace list and the fetch of W2
C22_FailedFetchNotRepeated ==
    /\ TaskDone
    /\ call.mode = "assigned"
    /\ Failed("getTasks", "W1")
    /\ TimesIssued(<<"getTasks", "W1">>) = 1
    /\ fetched = <<<<"getUserInfo", "">>, <<"getWorkspaces", "">>,
                   <<"getTasks", "W1">>, <<"getTasks", "W2">>>>
\* the workspace is in the call's scope and answered with a page of as many
\* tasks as the limit
ReturnedFullPage(team) ==
    /\ Succeeded("getTasks", team.id)
    /\ Len(UpstreamTasks(team.id)) = call.limit

\* C29: in a task aggregation over several workspaces pagination.hasMore is
\* true whenever at least one workspace in scope returned a full upstream
\* page of limit tasks.
C29_FullPageMeansHasMore ==
    (TaskDone /\ answer.status = "returned" /\ call.mode /= "service" /\ Len(scan.teams) > 1) =>
        ((\E t \in Range(scan.teams) : ReturnedFullPage(t)) => answer.pagination[1].hasMore)
\* ========================================================================
\* The consent protocol with the rendered dialogs recorded: the browser sends
\* its own cookie or none, and a form with any state.
\* ========================================================================

RenderedAfter(clientId, response) ==
    IF response.kind = "dialog" THEN rendered \cup {clientId} ELSE rendered

\* GET /authorize?client_id=... ; a rendered dialog is recorded
Prompt ==
    /\ phase = "idle"
    /\ \E clientId \in ClientIds, cookie \in {Null, jar} :
        /\ req' = Request("GET", clientId, cookie, NoForm)
        /\ resp' = GetAuthorizeHandler(req', cookieSecret)
        /\ rendered' = RenderedAfter(clientId, resp')
    /\ phase' = "responded"
    /\ UNCHANGED <<cookieSecret, jar, approval, treeVars, taskVars, callback, detail>>

\* POST /authorize with a form body
Submit ==
    /\ phase = "idle"
    /\ \E form \in Forms, cookie \in {Null, jar} :
        /\ req' = Request("POST", <<>>, cookie, form)
        /\ resp' = PostAuthorizeHandler(req', cookieSecret)
    /\ phase' = "responded"
    /\ UNCHANGED <<cookieSecret, jar, approval, rendered, treeVars, taskVars, callback, detail>>

PromptNext == Prompt \/ Submit \/ Deliver

PromptSpec == ConsentInit /\ [][PromptNext]_vars

\* a POST whose form carries the state of an approval dialog
WellFormedPost ==
    /\ phase = "responded"
    /\ req.method = "POST"
    /\ req.form.parses
    /\ req.form.state \in DialogStates

\* C25: a consent POST with a well-formed state succeeds and emits a signed
\* cookie that contains the approved client id, whatever the incoming cookie
\* looks like (absent, malformed or unverifiable).
C25_PostToleratesAnyCookie ==
    WellFormedPost =>
        /\ resp.kind = "redirect"
        /\ resp.setCookie /= Null
        /\ SignatureMatches(EmittedCookie, cookieSecret)
        /\ NewApproval.clientId \in Range(NewApproval.clients)

\* the members of the incoming cookie's list, when its signature is the HMAC
\* of its payload under the secret and the payload is a list of strings
VerifiedMembers(header, secret) ==
    IF ~SignatureMatches(header, secret) THEN {}
    ELSE IF NotAListOfStrings(atob(ConsentParts(header)[2]).v) THEN {}
    ELSE Range(StringsOf(JsonParse(atob(ConsentParts(header)[2]).v).v))

\* the members of the list the incoming cookie's payload spells, signed or not
ClaimedMembers(header) ==
    IF ConsentCookie(header) = Null \/ Len(ConsentParts(header)) /= 2 THEN {}
    ELSE IF ~atob(ConsentParts(header)[2]).ok THEN {}
    ELSE IF NotAListOfStrings(atob(ConsentParts(header)[2]).v) THEN {}
    ELSE Range(StringsOf(JsonParse(atob(ConsentParts(header)[2]).v).v))

\* C26: every client id in a list that parseRedirectApproval signs is the
\* client id of the current approval or a member of an incoming cookie that
\* verified under the server secret; nothing of a cookie that fails
\* verification is carried into the new cookie.
C26_SignedIdsHaveProvenance ==
    Emitted =>
        \A i \in 1..Len(NewApproval.clients) :
            \/ NewApproval.clients[i] = NewApproval.clientId
            \/ /\ NewApproval.clients[i].t = "string"
               /\ NewApproval.clients[i].v \in VerifiedMembers(req.cookie, cookieSecret)

\* C26 witness: a cookie was emitted for a request whose cookie fails
\* verification and lists another client
C26_UnverifiedListDropped ==
    /\ Emitted
    /\ ~SignatureMatches(req.cookie, cookieSecret)
    /\ \E id \in ClaimedMembers(req.cookie) : JStr(id) /= NewApproval.clientId
    /\ NewApproval.clients = <<NewApproval.clientId>>

\* C27: POST /authorize adds a client id to the consent list only if the
\* approval dialog for that client id was rendered by an earlier
\* GET /authorize.
C27_ConsentOnlyAfterPrompt ==
    Emitted =>
        /\ NewApproval.clientId.t = "string"
        /\ NewApproval.clientId.v \in rendered
\* ========================================================================
\* GET /callback: the upstream provider's redirect back, one request at a
\* time.  The handler awaits the token exchange, the user-info fetch and
\* completeAuthorization; each is a step whose outcome the environment picks.
\* ========================================================================

\* decodeURIComponent: every %XX run is the UTF-8 of one code point; URIError
\* on a '%' without two hexadecimal digits and on bytes that are no UTF-8
PercentByte(s, i) ==
    IF At(s, i) = 37 /\ HexVal(At(s, i + 1)) /= -1 /\ HexVal(At(s, i + 2)) /= -1
        THEN 16 * HexVal(s[i + 1]) + HexVal(s[i + 2])
    ELSE -1

Utf8Length(b) ==
    IF b < 0 THEN 0
    ELSE IF b < 128 THEN 1
    ELSE IF b >= 194 /\ b <= 223 THEN 2
    ELSE IF b >= 224 /\ b <= 239 THEN 3
    ELSE IF b >= 240 /\ b <= 244 THEN 4
    ELSE 0

\* the code point of n continuation bytes from index i, continuing acc; -1
\* when one of them is no continuation byte
RECURSIVE CodePointOf(_, _, _, _)
CodePointOf(s, i, n, acc) ==
    IF n = 0 THEN acc
    ELSE IF PercentByte(s, i) < 128 \/ PercentByte(s, i) > 191 THEN -1
    ELSE CodePointOf(s, i + 3, n - 1, acc * 64 + PercentByte(s, i) - 128)

\* not overlong, no surrogate, at most U+10FFFF
ValidCodePoint(cp, n) ==
    IF n = 2 THEN cp >= 128
    ELSE IF n = 3 THEN cp >= 2048 /\ ~IsHighSurrogate(cp) /\ ~IsLowSurrogate(cp)
    ELSE cp >= 65536 /\ cp <= 1114111

CodeUnitsOf(cp) ==
    IF cp < 65536 THEN <<cp>>
    ELSE <<55296 + ((cp - 65536) \div 1024), 56320 + ((cp - 65536) % 1024)>>

PrependTo(units, rest) == IF rest.ok THEN Ok(units \o rest.v) ELSE Throw

RECURSIVE UriDecodeFrom(_, _)
DecodedPoint(s, i, n, cp) ==
    IF cp = -1 THEN Throw
    ELSE IF ~ValidCodePoint(cp, n) THEN Throw
    ELSE PrependTo(CodeUnitsOf(cp), UriDecodeFrom(s, i + 3 * n))

DecodedSequence(s, i, b, n) ==
    IF n = 0 THEN Throw
    ELSE IF n = 1 THEN PrependTo(<<b>>, UriDecodeFrom(s, i + 3))
    ELSE DecodedPoint(s, i, n, CodePointOf(s, i + 3, n - 1, b - (IF n = 2 THEN 192 ELSE IF n = 3 THEN 224 ELSE 240)))

UriDecodeFrom(s, i) ==
    IF i > Len(s) THEN Ok(<<>>)
    ELSE IF s[i] /= 37 THEN PrependTo(<<s[i]>>, UriDecodeFrom(s, i + 1))
    ELSE DecodedSequence(s, i, PercentByte(s, i), Utf8Length(PercentByte(s, i)))

decodeURIComponent(s) == UriDecodeFrom(s, 1)

\* lines 174-176: JSON.parse(decodeURIComponent(atob(stateParam)))
ParsedUri(uri) == IF ~uri.ok THEN Throw ELSE JsonParse(uri.v)
DecodedUri(text) == IF ~text.ok THEN Throw ELSE ParsedUri(decodeURIComponent(text.v))
DecodedRequest(stateParam) == DecodedUri(atob(stateParam))

\* c.req.query(name): the parameter's text, Null when the query has none
Query(state, error, code) == [state |-> state, error |-> error, code |-> code]

\* a request just received: nothing checked, nothing fetched, nothing granted
Received(query) ==
    [pc |-> "received", query |-> query, oauthReqInfo |-> JUndefined,
     exchanged |-> None, accessToken |-> Null, user |-> None,
     trail |-> <<>>, granted |-> 0, resp |-> NoResponse]

Responded(cb, response) == [cb EXCEPT !.pc = "responded", !.resp = response]

Passed(cb, check) == [cb EXCEPT !.trail = Append(@, check)]

\* lines 201-209: a code must be present; then the handler awaits the exchange
CheckCode(cb) ==
    IF cb.query.code = Null \/ cb.query.code = <<>>
        THEN Responded(cb, createAdaptiveErrorResponse(400))
    ELSE [Passed(cb, "code") EXCEPT !.pc = "exchange"]

\* lines 188-199: an error parameter of the upstream provider ends the request
CheckError(cb) ==
    IF cb.query.error /= Null /\ cb.query.error /= <<>>
        THEN Responded(cb, createAdaptiveErrorResponse(400))
    ELSE CheckCode(Passed(cb, "noError"))

\* lines 174-185: an exception (no base64, no URI text, no JSON, clientId of
\* null) reaches the catch block of line 268; a falsy clientId is refused
CheckClient(cb, oauthReqInfo) ==
    IF ~oauthReqInfo.ok THEN Responded(cb, createAdaptiveErrorResponse(500))
    ELSE IF oauthReqInfo.v.t = "null" THEN Responded(cb, createAdaptiveErrorResponse(500))
    ELSE IF ~Truthy(GetProp(oauthReqInfo.v, CLIENT_ID))
        THEN Responded(cb, createAdaptiveErrorResponse(400))
    ELSE CheckError([Passed(cb, "state") EXCEPT !.oauthReqInfo = oauthReqInfo.v])

\* lines 164-172
CheckState(cb) ==
    IF cb.query.state = Null \/ cb.query.state = <<>>
        THEN Responded(cb, createAdaptiveErrorResponse(400))
    ELSE CheckClient(cb, DecodedRequest(cb.query.state))

\* fetchUpstreamAuthToken's result [accessToken, errResponse]; errResponse is
\* the status of the error response, 0 for null
TokenResult(accessToken, errResponse) ==
    [accessToken |-> accessToken, errResponse |-> errResponse]

\* fetchUpstreamAuthToken for a code and the token endpoint's answer: fetch
\* rejects, the response is not ok, its body does not parse, or it is a JSON
\* or form body with an access_token (Null when it has none)
fetchUpstreamAuthToken(code, answered) ==
    IF code = Null \/ code = <<>> THEN Ok(TokenResult(Null, 400))
    ELSE IF answered.kind = "rejects" THEN Throw
    ELSE IF answered.kind = "notOk" THEN Ok(TokenResult(Null, 500))
    ELSE IF answered.kind = "unparsable" THEN Throw
    ELSE IF answered.token = Null \/ answered.token = <<>> THEN Ok(TokenResult(Null, 400))
    ELSE Ok(TokenResult(answered.token, 0))

\* the exchange's result taken without looking at errResponse
AfterExchangeUnchecked(cb, exchanged) ==
    IF ~exchanged.ok THEN Responded(cb, createAdaptiveErrorResponse(500))
    ELSE [Passed(cb, "token") EXCEPT !.pc = "userInfo", !.accessToken = exchanged.v.accessToken]

\* lines 212-227: an errResponse ends the request with 500
AfterExchange(cb, exchanged) ==
    IF ~exchanged.ok THEN Responded(cb, createAdaptiveErrorResponse(500))
    ELSE IF exchanged.v.errResponse /= 0 THEN Responded(cb, createAdaptiveErrorResponse(500))
    ELSE [Passed(cb, "token") EXCEPT !.pc = "userInfo", !.accessToken = exchanged.v.accessToken]

\* lines 230-248: fetch rejects, the response is not ok, its body is no JSON
\* or has no user (the destructuring throws), or it holds the user
AfterUserInfo(cb, answered) ==
    IF answered /= "user" THEN Responded(cb, createAdaptiveErrorResponse(500))
    ELSE [Passed(cb, "userInfo") EXCEPT !.pc = "complete"]

\* lines 251-267: completeAuthorization issues the grant and returns
\* redirectTo, or throws
AfterCompletion(cb, completed) ==
    IF completed = "throws" THEN Responded(cb, createAdaptiveErrorResponse(500))
    ELSE Responded([cb EXCEPT !.granted = @ + 1], Response("redirect", 302, Null, Null))

\* the state parameters redirectToClickUp makes for the client ids
UpstreamStates ==
    {RedirectWithState(encodeURIComponent(JsonStringify(parseAuthRequest([clientId |-> id]))), Null).state :
        id \in ClientIds}

\* state parameters nobody issued: "!!" (no base64), "%" (no URI text), "{"
\* (no JSON), null, {}, 5, {"clientId":""}, {"clientId":"%E3%81%82"} spelt
\* with lower-case escapes
CraftedUpstreamStates ==
    { <<33, 33>>, btoa(<<37>>).v, btoa(<<123>>).v, btoa(<<110, 117, 108, 108>>).v,
      btoa(<<123, 125>>).v, btoa(<<53>>).v,
      btoa(encodeURIComponent(JsonStringify(parseAuthRequest([clientId |-> <<>>]))).v).v,
      btoa(<<37, 55, 98, 37, 50, 50>> \o CLIENT_ID
           \o <<37, 50, 50, 37, 51, 97, 37, 50, 50, 37, 101, 51, 37, 56, 49, 37, 56, 50, 37, 50, 50, 37, 55, 100>>).v }

Queries ==
    {Query(state, error, code) :
        state \in {Null, <<>>} \cup UpstreamStates \cup CraftedUpstreamStates,
        error \in {Null, <<>>, <<100, 101, 110, 105, 101, 100>>},
        code \in {Null, <<>>, <<99, 49>>}}

\* the token endpoint's answers
TokenAnswers ==
    {[kind |-> k, token |-> Null] : k \in {"rejects", "notOk", "unparsable"}}
    \cup {[kind |-> k, token |-> t] : k \in {"json", "form"}, t \in {Null, <<>>, <<116, 49>>}}

UserInfoAnswers == {"rejects", "notOk", "unparsable", "noUser", "user"}

CallbackInit ==
    /\ ConsentIdle
    /\ TreeIdle
    /\ TaskIdle

\* GET /callback?state=...&error=...&code=... up to the handler's first await
GetCallback ==
    /\ callback.pc = "idle"
    /\ \E query \in Queries : callback' = CheckState(Received(query))
    /\ UNCHANGED <<consentVars, treeVars, taskVars, detail>>

\* the token endpoint answers
TokenExchange ==
    /\ callback.pc = "exchange"
    /\ \E answered \in TokenAnswers :
        callback' = AfterExchange([callback EXCEPT !.exchanged = Some(answered)],
                                  fetchUpstreamAuthToken(callback.query.code, answered))
    /\ UNCHANGED <<consentVars, treeVars, taskVars, detail>>

\* the user-info endpoint answers
UserInfo ==
    /\ callback.pc = "userInfo"
    /\ \E answered \in UserInfoAnswers :
        callback' = AfterUserInfo([callback EXCEPT !.user = Some(answered)], answered)
    /\ UNCHANGED <<consentVars, treeVars, taskVars, detail>>

\* OAUTH_PROVIDER.completeAuthorization is called
CompleteAuthorization ==
    /\ callback.pc = "complete"
    /\ \E completed \in {"redirectTo", "throws"} :
        callback' = AfterCompletion(Passed(callback, "completeAuthorization"), completed)
    /\ UNCHANGED <<consentVars, treeVars, taskVars, detail>>

\* the response is sent
CallbackDone ==
    /\ callback.pc = "responded"
    /\ callback' = IdleCallback
    /\ UNCHANGED <<consentVars, treeVars, taskVars, detail>>

CallbackNext == GetCallback \/ TokenExchange \/ UserInfo \/ CompleteAuthorization \/ CallbackDone

CallbackSpec == CallbackInit /\ [][CallbackNext]_vars

\* the state parameter decodes to a request with a client id
NamesClient(stateParam) ==
    /\ stateParam /= Null
    /\ atob(stateParam).ok
    /\ decodeURIComponent(atob(stateParam).v).ok
    /\ JsonParse(decodeURIComponent(atob(stateParam).v).v).ok
    /\ Truthy(GetProp(JsonParse(decodeURIComponent(atob(stateParam).v).v).v, CLIENT_ID))

Present(parameter) == parameter /= Null /\ parameter /= <<>>

\* what must hold of a request before completeAuthorization
MayComplete(cb) ==
    /\ NamesClient(cb.query.state)
    /\ ~Present(cb.query.error)
    /\ Present(cb.query.code)
    /\ cb.exchanged /= None
    /\ cb.exchanged[1].kind \in {"json", "form"}
    /\ Present(cb.exchanged[1].token)
    /\ cb.user = Some("user")

Completions(trail) == Cardinality({i \in 1..Len(trail) : trail[i] = "completeAuthorization"})

\* C28: GET /callback calls completeAuthorization at most once, and only
\* after the state named a client, no error parameter was present, a code was
\* present, the exchange returned an access token and the user-info fetch
\* succeeded, in that order; in every other case the response is an error
\* and nothing is granted.
C28_CompletesOnlyAfterEveryCheck ==
    callback.pc /= "idle" =>
        /\ Completions(callback.trail) <= 1
        /\ Completions(callback.trail) = 1 =>
            /\ callback.trail = <<"state", "noError", "code", "token", "userInfo", "completeAuthorization">>
            /\ MayComplete(callback)
            /\ Present(callback.accessToken)
        /\ (callback.pc = "responded" /\ ~MayComplete(callback)) =>
            /\ callback.resp.kind = "error"
            /\ callback.granted = 0
        /\ callback.granted <= Completions(callback.trail)

\* C28 witness: a callback with a percent-encoded client id was granted
C28_Granted ==
    /\ callback.pc = "responded"
    /\ callback.resp.kind = "redirect"
    /\ callback.granted = 1
    /\ GetProp(callback.oauthReqInfo, CLIENT_ID) = JStr(<<12354>>)
\* ========================================================================
\* ClickUpTaskBasic.getTaskDetail, one call at a time: the task is fetched,
\* then the comments and the subtasks requests are both in flight and are
\* answered in either order.
\* ========================================================================

\* the comments upstream holds for a task; None when the body has no
\* comments property
UpstreamComments(taskId) ==
    IF taskId = "T1" THEN Some(<<"c1", "c2">>)
    ELSE IF taskId = "T2" THEN None
    ELSE Some(<<>>)

\* the subtasks upstream holds for a task of a workspace; None when the body
\* has no tasks property
UpstreamSubtasks(teamId, taskId) ==
    IF teamId /= "W1" THEN Some(<<>>)
    ELSE IF taskId = "T1" THEN Some(<<RawTask("T1a", Some("open"), None)>>)
    ELSE IF taskId = "T2"
        THEN Some(<<RawTask("T2a", Some("open"), None), RawTask("T2b", None, Some(<<>>))>>)
    ELSE None

DetailTaskIds == {"T1", "T2", "T3"}
DetailTeamIds == {"W1", "W9"}

\* how upstream answers a request: with an ok response, with another status,
\* not at all (fetch rejects), or with a body that is no JSON
Answers == {"ok", "notOk", "rejects", "unparsable"}

OrEmpty(collection) == IF collection = None THEN <<>> ELSE collection[1]

\* basic.ts lines 23-42
getTask(taskId, answered) ==
    IF answered /= "ok" THEN Throw
    ELSE Ok(formatTaskDates(RawTask(taskId, Some("open"), None)))

\* basic.ts lines 141-159: data.comments || []
getTaskComments(taskId, answered) ==
    IF answered /= "ok" THEN Throw ELSE Ok(OrEmpty(UpstreamComments(taskId)))

\* basic.ts lines 169-189: (data.tasks || []).map(formatTaskDates)
getSubtasks(taskId, teamId, answered) ==
    IF answered /= "ok" THEN Throw
    ELSE Ok([i \in 1..Len(OrEmpty(UpstreamSubtasks(teamId, taskId))) |->
                formatTaskDates(OrEmpty(UpstreamSubtasks(teamId, taskId))[i])])

\* a promise without a catch handler
Uncaught(promise) == promise

\* promise.catch(() => [])
CatchEmpty(promise) == IF promise.ok THEN promise ELSE Ok(<<>>)

\* lines 206-214: Promise.all rejects when one of its promises does;
\* otherwise the task with comments, subtasks, has_subtasks, comment_count
DetailResult(task, comments, subtasks) ==
    IF ~comments.ok \/ ~subtasks.ok THEN [status |-> "thrown"]
    ELSE [status |-> "returned", task |-> task, comments |-> comments.v,
          subtasks |-> subtasks.v, has_subtasks |-> Len(subtasks.v) > 0,
          comment_count |-> Len(comments.v)]

DetailInit ==
    /\ ConsentIdle
    /\ TreeIdle
    /\ TaskIdle

\* getTaskDetail(accessToken, taskId, teamId) is called
GetTaskDetail ==
    /\ detail.pc = "idle"
    /\ \E taskId \in DetailTaskIds, teamId \in DetailTeamIds :
        detail' = [pc |-> "getTask", taskId |-> taskId, teamId |-> teamId, task |-> None,
                   answered |-> [getTask |-> "", getTaskComments |-> "", getSubtasks |-> ""],
                   comments |-> None, subtasks |-> None, settled |-> <<>>,
                   result |-> [status |-> "pending"]]
    /\ UNCHANGED <<consentVars, treeVars, taskVars, callback>>

\* line 200: await this.getTask; a failure leaves getTaskDetail
GetTask ==
    /\ detail.pc = "getTask"
    /\ \E answered \in Answers :
        detail' = IF getTask(detail.taskId, answered).ok
                  THEN [detail EXCEPT !.pc = "subFetches",
                                      !.answered.getTask = answered,
                                      !.task = Some(getTask(detail.taskId, answered).v)]
                  ELSE [detail EXCEPT !.pc = "done",
                                      !.answered.getTask = answered,
                                      !.result = [status |-> "thrown"]]
    /\ UNCHANGED <<consentVars, treeVars, taskVars, callback>>

\* line 204: the comments request is answered
GetTaskComments ==
    /\ detail.pc = "subFetches"
    /\ detail.comments = None
    /\ \E answered \in Answers :
        detail' = [detail EXCEPT
                    !.answered.getTaskComments = answered,
                    !.comments = Some(CatchEmpty(getTaskComments(detail.taskId, answered))),
                    !.settled = Append(@, "getTaskComments")]
    /\ UNCHANGED <<consentVars, treeVars, taskVars, callback>>

\* line 205: the subtasks request is answered
GetSubtasks ==
    /\ detail.pc = "subFetches"
    /\ detail.subtasks = None
    /\ \E answered \in Answers :
        detail' = [detail EXCEPT
                    !.answered.getSubtasks = answered,
                    !.subtasks = Some(CatchEmpty(getSubtasks(detail.taskId, detail.teamId, answered))),
                    !.settled = Append(@, "getSubtasks")]
    /\ UNCHANGED <<consentVars, treeVars, taskVars, callback>>

\* lines 203-214: both promises are settled
ReturnDetail ==
    /\ detail.pc = "subFetches"
    /\ detail.comments /= None
    /\ detail.subtasks /= None
    /\ detail' = [detail EXCEPT
                    !.pc = "done",
                    !.result = DetailResult(detail.task[1], detail.comments[1], detail.subtasks[1])]
    /\ UNCHANGED <<consentVars, treeVars, taskVars, callback>>

\* the caller has taken the outcome
DetailTaken ==
    /\ detail.pc = "done"
    /\ detail' = IdleDetail
    /\ UNCHANGED <<consentVars, treeVars, taskVars, callback>>

DetailNext ==
    GetTaskDetail \/ GetTask \/ GetTaskComments \/ GetSubtasks \/ ReturnDetail \/ DetailTaken

DetailSpec == DetailInit /\ [][DetailNext]_vars

\* what an answered sub-fetch contributes: upstream's data for an ok answer,
\* nothing for a failure
ExpectedComments ==
    IF detail.answered.getTaskComments = "ok" THEN OrEmpty(UpstreamComments(detail.taskId))
    ELSE <<>>

ExpectedSubtaskIds ==
    IF detail.answered.getSubtasks = "ok"
        THEN [i \in 1..Len(OrEmpty(UpstreamSubtasks(detail.teamId, detail.taskId))) |->
                OrEmpty(UpstreamSubtasks(detail.teamId, detail.taskId))[i].id]
    ELSE <<>>

\* C21: in getTaskDetail the comments fetch and the subtasks fetch fail
\* independently: once the task itself was fetched the operation returns the
\* task, the data of every sub-fetch that succeeded and an empty collection
\* for every one that failed, and does not fail as a whole.
C21_SubFetchesFailIndependently ==
    (detail.pc = "done" /\ detail.answered.getTask = "ok") =>
        /\ detail.result.status = "returned"
        /\ detail.result.task.id = detail.taskId
        /\ detail.result.comments = ExpectedComments
        /\ IdsOf(detail.result.subtasks) = ExpectedSubtaskIds
        /\ detail.result.comment_count = Len(ExpectedComments)
        /\ detail.result.has_subtasks = (ExpectedSubtaskIds /= <<>>)

\* C21 witness: the subtasks were answered first, the comments request failed
\* afterwards, and the detail of T2 came back with its two subtasks
C21_CommentsFailedSubtasksKept ==
    /\ detail.pc = "done"
    /\ detail.taskId = "T2"
    /\ detail.settled = <<"getSubtasks", "getTaskComments">>
    /\ detail.answered.getTaskComments = "notOk"
    /\ detail.result.status = "returned"
    /\ Len(detail.result.subtasks) = 2
    /\ detail.result.comments = <<>>
\* ========================================================================
\* Order of processing in getAllLists
\* ========================================================================

\* the list entries of the result, each with the workspace and space of its
\* group
ReturnedEntries ==
    UNION {{[teamId |-> g.teamId, spaceId |-> g.spaceId, list |-> l] : l \in Range(g.lists)} :
                g \in Range(result.data)}

\* the workspaces of the call's scope, as a set
ScopeIds ==
    IF args.teamId = "" THEN {t.id : t \in Range(UpstreamTeams)} ELSE {args.teamId}

\* the lists a space contributes under the pattern of failing fetches, as a
\* set: its direct lists unless their fetch fails, and then the lists of each
\* of its folders whose fetch does not fail, unless the folder fetch fails
ContributionOf(spaceId) ==
    IF <<"getListsInSpace", spaceId>> \in failing THEN {}
    ELSE IF <<"getFolders", spaceId>> \in failing THEN DirectLists(spaceId)
    ELSE DirectLists(spaceId)
         \cup UNION {FolderLists(f) :
                        f \in {x \in FoldersIn(spaceId) : <<"getListsInFolder", x.id>> \notin failing}}

\* the spaces of the workspaces in scope whose space fetch does not fail
SpacesInScope ==
    UNION {{[teamId |-> t, spaceId |-> sp.id] :
                sp \in Range(Included(UpstreamSpaces(t), args.archived))} :
            t \in {x \in ScopeIds : <<"getSpaces", x>> \notin failing}}

\* the entries the upstream tree and the pattern of failures determine,
\* whatever the order its collections are served and processed in
DeterminedEntries ==
    UNION {{[teamId |-> sc.teamId, spaceId |-> sc.spaceId, list |-> l] :
                l \in ContributionOf(sc.spaceId)} : sc \in SpacesInScope}

\* C23: for a fixed upstream tree and a fixed pattern of failing fetches the
\* set of list entries getAllLists returns is the same whatever the order in
\* which workspaces, spaces and folders are processed.
C23_EntriesDoNotDependOnOrder ==
    (Done /\ result.status = "returned") => ReturnedEntries = DeterminedEntries

\* C23 witness: with the collections in the opposite order, folder F2 was
\* processed first and failed, and the lists of F1 and of the other spaces
\* are in the result
C23_ReversedWithFailedFolder ==
    /\ Done
    /\ result.status = "returned"
    /\ upstream = "reversed"
    /\ args.teamId = ""
    /\ fetched[2] = <<"getSpaces", "W2">>
    /\ Failed("getListsInFolder", "F2")
    /\ {e.list.id : e \in ReturnedEntries} = {"L1", "L2", "L4", "L5", "L6"}
====
